---- MODULE Spec2Model ----
(***************************************************************************)
(* Model of the scraping pipelines of mulheres_politica/scraping:          *)
(*   - the text/field extractor and record builder of                      *)
(*     webscraping_deputadas.py,                                           *)
(*   - the paginator process_paginated_results,                            *)
(*   - the profile enricher collect_detailed_profiles (deputadas and       *)
(*     senadoras),                                                         *)
(*   - the TSE CSV/ZIP filter (csv_to_json_vereadoras.py and               *)
(*     coletor_dados_abertos_vereadoras.py).                               *)
(* A text is a sequence of one-character strings.  An accented character   *)
(* is written as one two-symbol token ("a'" for a-acute, "a~" for a-tilde, *)
(* "c," for c-cedilla): it is one element of the sequence, as it is one    *)
(* code point in Python.                                                   *)
(***************************************************************************)
EXTENDS Integers, Sequences, FiniteSets, TLC

VARIABLES
    pc,                 \* position of the running pipeline
    \* ---- text extractor / record builder
    selectors,          \* what each selector of the list yields on the element
    text_out,           \* result of extract_text_by_selectors
    element,            \* the HTML element handed to extract_deputada_from_element
    built,              \* its result: None, a record, or Raised
    \* ---- paginator (process_paginated_results)
    current_page,
    consecutive_errors,
    all_deputadas,
    pages,              \* history: pages[k] is the response received for page k
    halt,               \* why the while loop was left ("" while it runs)
    returned,           \* the list handed back to the caller
    \* ---- profile enricher (collect_detailed_profiles)
    pipeline,           \* "deputadas" or "senadoras"
    deputadas,          \* the input list
    detailed_deputadas, \* the output list being built
    idx,                \* enumerate index i of the for loop
    profiles,           \* history: profiles[k] is what happened for input k
    \* ---- TSE CSV/ZIP filter
    impl,               \* "csv_to_json" or "coletor"
    stats,
    vereadoras,
    linha,              \* the row read last
    nrows,              \* number of rows read so far, all member files together
    membros,            \* number of member files arquivos_csv lists
    nfiles,             \* number of member files the for loop has reached
    falhas,             \* history: number of member files that raised
    arquivos_processados, \* stats["arquivos_processados"] (csv_to_json only)
    seen,               \* history: what the rows read so far were, by kind
    resultado,          \* what the processing function handed to its caller
    termination,        \* how the script's main ended ("" while it runs)
    \* ---- network throttling of a scraping run
    last_net,           \* the later of the run's last request and last sleep
    unthrottled,        \* history: a request followed a request with no sleep between
    \* ---- the table scanner extract_senadoras_from_filtered_table
    rows,               \* the <tr> rows of the table
    row_i,              \* index of the next row of the for loop
    inside_feminino_section,
    inside_masculino_section,
    senadoras,
    total_homens,
    \* ---- SenadorasCSVToJSONConverter
    csv_file,           \* the CSV file at csv_file_path
    senadoras_data,     \* what process_csv_to_json handed to save_to_json
    temp_stats,         \* the file data/temp_stats_senado.json
    json_output,        \* the file at json_output_path
    converted,          \* what save_to_json returned ("" while it runs)
    \* ---- JSONConsolidator
    json_files,         \* the three input files, by role
    deputadas_list,
    senadoras_list,
    vereadoras_list,
    consolidated_data,
    output_json,        \* the file at output_json
    success             \* how consolidate ended ("" while it runs)

exVars  == <<selectors, text_out, element, built>>
pagVars == <<current_page, consecutive_errors, all_deputadas, pages, halt, returned>>
enrVars == <<pipeline, deputadas, detailed_deputadas, idx, profiles>>
tseVars == <<impl, stats, vereadoras, linha, nrows, membros, nfiles, falhas,
             arquivos_processados, seen, resultado, termination>>
netVars == <<last_net, unthrottled>>
tabVars == <<rows, row_i, inside_feminino_section, inside_masculino_section,
             senadoras, total_homens>>
cnvVars == <<csv_file, senadoras_data, temp_stats, json_output, converted>>
conVars == <<json_files, deputadas_list, senadoras_list, vereadoras_list,
             consolidated_data, output_json, success>>
vars    == <<pc, exVars, pagVars, enrVars, tseVars, netVars, tabVars, cnvVars, conVars>>

(***************************************************************************)
(* Bounds of the model.                                                    *)
(***************************************************************************)
MaxSelectors == 3   \* longest selector list enumerated
MaxPage      == 5   \* last page number the paginator model fetches
MaxInput     == 4   \* longest input list of the enricher run on its own
MaxRows      == 2   \* rows read by the TSE filter
MaxTableRows == 4   \* longest table handed to the Senado table scanner

(***************************************************************************)
(* Texts: str.strip, str.lower, len, substring test, str.isalpha.          *)
(***************************************************************************)
Range(s) == {s[i] : i \in 1..Len(s)}

Min(a, b) == IF a < b THEN a ELSE b

RECURSIVE Rep(_, _)
Rep(c, n) == IF n = 0 THEN <<>> ELSE <<c>> \o Rep(c, n - 1)

Whitespace == {" "}

UpperChars == <<"A","B","C","D","E","F","G","H","I","J","K","L","M",
                "N","O","P","Q","R","S","T","U","V","W","X","Y","Z",
                "A'","A~","C,","E'","I'","U'">>
LowerChars == <<"a","b","c","d","e","f","g","h","i","j","k","l","m",
                "n","o","p","q","r","s","t","u","v","w","x","y","z",
                "a'","a~","c,","e'","i'","u'">>

UpperSet == Range(UpperChars)
LowerSet == Range(LowerChars)

IsAlpha(c) == c \in UpperSet \cup LowerSet

LowerChar(c) ==
    IF c \in UpperSet
    THEN LowerChars[CHOOSE i \in 1..Len(UpperChars) : UpperChars[i] = c]
    ELSE c

Lower(s) == [i \in 1..Len(s) |-> LowerChar(s[i])]

UpperChar(c) ==
    IF c \in LowerSet
    THEN UpperChars[CHOOSE i \in 1..Len(LowerChars) : LowerChars[i] = c]
    ELSE c

Upper(s) == [i \in 1..Len(s) |-> UpperChar(s[i])]

RECURSIVE LStrip(_)
LStrip(s) ==
    IF s # <<>> /\ Head(s) \in Whitespace THEN LStrip(Tail(s)) ELSE s

RECURSIVE RStrip(_)
RStrip(s) ==
    IF s # <<>> /\ s[Len(s)] \in Whitespace
    THEN RStrip(SubSeq(s, 1, Len(s) - 1))
    ELSE s

Strip(s) == RStrip(LStrip(s))

\* Python's `sub in s`
Contains(s, sub) ==
    \E i \in 0..(Len(s) - Len(sub)) : SubSeq(s, i + 1, i + Len(sub)) = sub

\* Python's s[:n]
Prefix(s, n) == SubSeq(s, 1, Min(n, Len(s)))

(***************************************************************************)
(* extract_text_by_selectors.  The element is given by what each selector  *)
(* of the list yields, in list order: select_one raises (SelRaise), no     *)
(* sub-element matches (SelNone), or a sub-element with a text (SelText).  *)
(* The empty text <<>> is Python's "".                                     *)
(***************************************************************************)
SelRaise   == [kind |-> "raise"]
SelNone    == [kind |-> "none"]
SelText(t) == [kind |-> "text", text |-> t]

MinTextLen == 1   \* `len(text) > 1`

\* one turn of the for loop: Found(text) when the selector's text is
\* returned, NextSelector when the loop goes on, Propagated when an exception
\* leaves the function
Found(t)     == [kind |-> "returned", text |-> t]
NextSelector == [kind |-> "next"]
Propagated   == [kind |-> "Raised"]

\* mutant: the per-selector try/except is missing
SelectorYield_Propagates(outcome) ==
    IF outcome.kind = "raise" THEN Propagated
    ELSE IF outcome.kind = "none" THEN NextSelector
    ELSE LET text == Strip(outcome.text)
         IN  IF text # <<>> /\ Len(text) > MinTextLen THEN Found(text)
             ELSE NextSelector

SelectorYield(outcome) ==
    IF outcome.kind = "raise" THEN NextSelector          \* except: continue
    ELSE IF outcome.kind = "none" THEN NextSelector      \* `if elem:` is false
    ELSE LET text == Strip(outcome.text)
         IN  IF text # <<>> /\ Len(text) > MinTextLen THEN Found(text)
             ELSE NextSelector

RECURSIVE extract_text_by_selectors(_)
extract_text_by_selectors(outs) ==
    IF outs = <<>> THEN Found(<<>>)                      \* return ""
    ELSE IF SelectorYield(Head(outs)) # NextSelector THEN SelectorYield(Head(outs))
    ELSE extract_text_by_selectors(Tail(outs))

(***************************************************************************)
(* clean_deputada_name, clean_text, is_valid_deputada_data.                *)
(***************************************************************************)
unwanted_phrases == <<
    <<"p","e","s","q","u","i","s","e">>,
    <<"d","e","p","u","t","a","d","o">>,
    <<"f","i","l","t","r","o">>,
    <<"b","u","s","c","a","r">>,
    <<"r","e","s","u","l","t","a","d","o">>,
    <<"p","a'","g","i","n","a">>,
    <<"m","e","n","u">>,
    <<"n","a","v","e","g","a","c,","a~","o">>,
    <<"v","e","r"," ","m","a","i","s">>,
    <<"c","l","i","q","u","e">> >>

NameMinLen == 3
NameMaxLen == 100
CleanTextMax == 50

\* mutant: the upper length limit is not checked
clean_deputada_name_NoMax(name) ==
    IF name = <<>> THEN <<>>
    ELSE IF LET name_lower == Lower(name)
            IN  \E k \in 1..Len(unwanted_phrases) :
                    Contains(name_lower, unwanted_phrases[k]) THEN <<>>
    ELSE LET n == Strip(name)
         IN  IF Len(n) < NameMinLen THEN <<>>
             ELSE IF ~ \E i \in 1..Len(n) : IsAlpha(n[i]) THEN <<>>
             ELSE n

clean_deputada_name(name) ==
    IF name = <<>> THEN <<>>
    ELSE IF LET name_lower == Lower(name)
            IN  \E k \in 1..Len(unwanted_phrases) :
                    Contains(name_lower, unwanted_phrases[k]) THEN <<>>
    ELSE LET n == Strip(name)
         IN  IF Len(n) < NameMinLen \/ Len(n) > NameMaxLen THEN <<>>
             ELSE IF ~ \E i \in 1..Len(n) : IsAlpha(n[i]) THEN <<>>
             ELSE n

clean_text(text) ==
    IF text = <<>> THEN <<>> ELSE Prefix(Strip(text), CleanTextMax)

is_valid_deputada_data(deputada_data) ==
    LET name == deputada_data.nome
    IN  ~ (name = <<>> \/ Len(name) < NameMinLen)

(***************************************************************************)
(* extract_deputada_from_element.  An element is a record                  *)
(*   nome, partido, uf, legislatura, situacao : what the selectors of the  *)
(*       field's selector list yield, in list order;                       *)
(*   href : the href of the first <a href>, as a sequence of URL pieces    *)
(*       (<<>> when the element has no such link);                         *)
(*   bs4_raises : a BeautifulSoup call of the body raises.                 *)
(* The result is NoRecord (Python's None), Built(record) or Propagated (an *)
(* exception leaves the function).                                         *)
(***************************************************************************)
NoRecord   == [kind |-> "None"]
Built(r)   == [kind |-> "record", rec |-> r]

CamaraHost == "https://www.camara.leg.br"
Now        == "strftime"     \* time.strftime(...) at extraction

DefaultLegislatura ==
    <<"M","u'","l","t","i","p","l","a","s"," ",
      "l","e","g","i","s","l","a","t","u","r","a","s">>
DefaultSituacao ==
    <<"C","o","n","f","o","r","m","e"," ","p","e","r","i'","o","d","o">>

\* mutant: the host is put in front of the href without the `if link_elem` test
PerfilLink_BareHost(href) ==
    IF href = <<>> THEN <<CamaraHost>>
    ELSE IF "/deputados/" \in Range(href)
         THEN IF Head(href) = "http" THEN href
              ELSE <<CamaraHost>> \o href
         ELSE <<>>

PerfilLink(href) ==
    IF href = <<>> THEN <<>>                          \* no <a href>
    ELSE IF "/deputados/" \in Range(href)
         THEN IF Head(href) = "http" THEN href
              ELSE <<CamaraHost>> \o href
         ELSE <<>>

\* the body of the try block
DeputadaBody(el, source_url) ==
    LET nome0 == extract_text_by_selectors(el.nome).text
    IN  IF nome0 = <<>> \/ Len(nome0) < NameMinLen THEN NoRecord
        ELSE LET nome == clean_deputada_name(nome0)
             IN  IF nome = <<>> THEN NoRecord
                 ELSE IF el.bs4_raises THEN Propagated
                 ELSE LET partido     == extract_text_by_selectors(el.partido).text
                          uf          == extract_text_by_selectors(el.uf).text
                          legislatura == extract_text_by_selectors(el.legislatura).text
                          situacao    == extract_text_by_selectors(el.situacao).text
                      IN  Built([
                            nome            |-> nome,
                            partido         |-> IF partido # <<>> THEN clean_text(partido) ELSE <<>>,
                            uf              |-> IF uf # <<>> THEN clean_text(uf) ELSE <<>>,
                            legislatura     |-> IF legislatura # <<>> THEN clean_text(legislatura)
                                                ELSE DefaultLegislatura,
                            situacao        |-> IF situacao # <<>> THEN clean_text(situacao)
                                                ELSE DefaultSituacao,
                            link_perfil     |-> PerfilLink(el.href),
                            fonte_dados     |-> "Web Scraping HTML",
                            url_fonte       |-> source_url,
                            data_extracao   |-> Now,
                            metodo_extracao |-> "BeautifulSoup - Camara dos Deputados (filtro sexo=F)" ])

\* try: ... except Exception: return None
extract_deputada_from_element(el, source_url) ==
    IF DeputadaBody(el, source_url) = Propagated THEN NoRecord
    ELSE DeputadaBody(el, source_url)

(***************************************************************************)
(* parse_deputadas_results.  A page body is a record                       *)
(*   marker  : the page text holds one of the no_results_indicators;       *)
(*   keyword : the page text holds "deputad" or "resultado";               *)
(*   groups  : for each of the result_patterns, in order, the elements it  *)
(*             selects (a pattern selecting nothing gives <<>>);           *)
(*   general : the elements of the fallback selector a[href*="/deputados/"]*)
(***************************************************************************)
GeneralLimit == 50

RECURSIVE ValidRecords(_, _)
ValidRecords(elements, source_url) ==
    IF elements = <<>> THEN <<>>
    ELSE LET deputada_data == extract_deputada_from_element(Head(elements), source_url)
             rest == ValidRecords(Tail(elements), source_url)
         IN  IF deputada_data.kind = "record" /\ is_valid_deputada_data(deputada_data.rec)
             THEN <<deputada_data.rec>> \o rest
             ELSE rest

RECURSIVE ParsePatterns(_, _, _, _)
ParsePatterns(groups, general, source_url, acc) ==
    IF groups = <<>>
    THEN acc \o ValidRecords(Prefix(general, GeneralLimit), source_url)
    ELSE LET elements == Head(groups)
             acc2 == acc \o ValidRecords(elements, source_url)
         IN  IF elements # <<>> /\ acc2 # <<>> THEN acc2
             ELSE ParsePatterns(Tail(groups), general, source_url, acc2)

parse_deputadas_results(body, source_url) ==
    ParsePatterns(body.groups, body.general, source_url, <<>>)

(***************************************************************************)
(* The pages the model's server can answer with.                           *)
(***************************************************************************)
Txt(t) == <<SelText(t)>>

Elem(nome, href) ==
    [nome |-> nome, partido |-> Txt(<<"P","T">>), uf |-> Txt(<<" ","S","P">>),
     legislatura |-> <<>>, situacao |-> <<SelRaise>>,
     href |-> href, bs4_raises |-> FALSE]

ElemAna   == Elem(Txt(<<"A","n","a">>), <<"/deputados/", "1", "/perfil">>)
ElemBia   == Elem(<<SelNone, SelText(<<"B","i","a"," ">>)>>, <<>>)
ElemEva   == Elem(Txt(<<"E","v","a">>), <<"http", "/deputados/", "3">>)
ElemMenu  == Elem(Txt(<<"M","e","n","u">>), <<"/deputados/", "9">>)
ElemShort == Elem(Txt(<<"O","k">>), <<>>)

NoElements  == [groups |-> <<>>, general |-> <<>>]
\* the first pattern selects elements none of which is valid, the second
\* pattern selects two, one of them valid
ByPattern   == [groups |-> << <<ElemMenu>>, <<ElemAna, ElemShort>> >>, general |-> <<>>]
\* no pattern gives a valid record, the fallback selector gives two
ByFallback  == [groups |-> << <<ElemMenu>> >>, general |-> <<ElemEva, ElemBia>>]

Page(marker, keyword, c) ==
    [marker |-> marker, keyword |-> keyword, groups |-> c.groups, general |-> c.general]

PageBodies ==
    { Page(FALSE, TRUE, NoElements), Page(FALSE, FALSE, NoElements),
      Page(TRUE, TRUE, NoElements),  Page(TRUE, TRUE, ByPattern),
      Page(FALSE, TRUE, ByPattern),  Page(FALSE, FALSE, ByFallback) }

HttpOk       == 200
HttpNotFound == 404
HttpError    == 500     \* stands for every status that is neither 200 nor 404

Ok(body)     == [kind |-> "response", status |-> HttpOk, body |-> body]
Status(code) == [kind |-> "response", status |-> code]
FetchRaises  == [kind |-> "exception"]     \* session.get raises (timeout, ...)

PageResponses ==
    {Ok(b) : b \in PageBodies} \cup {Status(HttpNotFound), Status(HttpError), FetchRaises}

BaseUrl    == <<"resultado?sexo=F">>
PageUrl(n) == <<"resultado?sexo=F&pagina=", ToString(n)>>

(***************************************************************************)
(* process_paginated_results.                                              *)
(***************************************************************************)
max_consecutive_errors == 3

\* lines 1139-1147: the first page is the response the caller already holds
ProcessFirstPage(body) ==
    /\ pc = "first_page"
    /\ pages \in {<<>>, <<Ok(body)>>}
    /\ pages' = <<Ok(body)>>
    /\ all_deputadas' = all_deputadas \o parse_deputadas_results(body, BaseUrl)
    /\ pc' = "paging"
    /\ UNCHANGED <<current_page, consecutive_errors, halt, returned>>
    /\ UNCHANGED <<exVars, enrVars, tseVars, netVars, tabVars, cnvVars, conVars>>

\* mutant: an exception of the request is not counted as an error
PageOutcome_ExceptionNotCounted(resp, page, errors) ==
    IF resp.kind = "exception" THEN <<<<>>, errors, "">>
    ELSE IF resp.status = HttpOk
    THEN IF resp.body.marker THEN <<<<>>, errors, "marker">>
         ELSE LET page_deputadas == parse_deputadas_results(resp.body, PageUrl(page))
              IN  IF page_deputadas # <<>> THEN <<page_deputadas, 0, "">>
                  ELSE IF ~ resp.body.keyword THEN <<<<>>, errors, "empty">>
                  ELSE <<<<>>, errors + 1, "">>
    ELSE IF resp.status = HttpNotFound THEN <<<<>>, errors, "404">>
    ELSE <<<<>>, errors + 1, "">>

\* mutant: the page is parsed before the "no results" test
PageOutcome_MarkerAfterParse(resp, page, errors) ==
    IF resp.kind = "exception" THEN <<<<>>, errors + 1, "">>
    ELSE IF resp.status = HttpOk
    THEN LET page_deputadas == parse_deputadas_results(resp.body, PageUrl(page))
         IN  IF resp.body.marker THEN <<page_deputadas, errors, "marker">>
             ELSE IF page_deputadas # <<>> THEN <<page_deputadas, 0, "">>
             ELSE IF ~ resp.body.keyword THEN <<<<>>, errors, "empty">>
             ELSE <<<<>>, errors + 1, "">>
    ELSE IF resp.status = HttpNotFound THEN <<<<>>, errors, "404">>
    ELSE <<<<>>, errors + 1, "">>

\* mutant: a page with records does not reset the counter
PageOutcome_NoReset(resp, page, errors) ==
    IF resp.kind = "exception" THEN <<<<>>, errors + 1, "">>
    ELSE IF resp.status = HttpOk
    THEN IF resp.body.marker THEN <<<<>>, errors, "marker">>
         ELSE LET page_deputadas == parse_deputadas_results(resp.body, PageUrl(page))
              IN  IF page_deputadas # <<>> THEN <<page_deputadas, errors, "">>
                  ELSE IF ~ resp.body.keyword THEN <<<<>>, errors, "empty">>
                  ELSE <<<<>>, errors + 1, "">>
    ELSE IF resp.status = HttpNotFound THEN <<<<>>, errors, "404">>
    ELSE <<<<>>, errors + 1, "">>

\* mutant: 404 is handled like every other status that is not 200
PageOutcome_NotFoundCounted(resp, page, errors) ==
    IF resp.kind = "exception" THEN <<<<>>, errors + 1, "">>
    ELSE IF resp.status = HttpOk
    THEN IF resp.body.marker THEN <<<<>>, errors, "marker">>
         ELSE LET page_deputadas == parse_deputadas_results(resp.body, PageUrl(page))
              IN  IF page_deputadas # <<>> THEN <<page_deputadas, 0, "">>
                  ELSE IF ~ resp.body.keyword THEN <<<<>>, errors, "empty">>
                  ELSE <<<<>>, errors + 1, "">>
    ELSE <<<<>>, errors + 1, "">>

\* mutant: a page fetched with 200 never counts as an error
PageOutcome_EmptyPageNotCounted(resp, page, errors) ==
    IF resp.kind = "exception" THEN <<<<>>, errors + 1, "">>
    ELSE IF resp.status = HttpOk
    THEN IF resp.body.marker THEN <<<<>>, errors, "marker">>
         ELSE LET page_deputadas == parse_deputadas_results(resp.body, PageUrl(page))
              IN  IF page_deputadas # <<>> THEN <<page_deputadas, 0, "">>
                  ELSE IF ~ resp.body.keyword THEN <<<<>>, errors, "empty">>
                  ELSE <<<<>>, errors, "">>
    ELSE IF resp.status = HttpNotFound THEN <<<<>>, errors, "404">>
    ELSE <<<<>>, errors + 1, "">>

\* what one turn of the while loop does with the response to its request:
\* <<records appended, new consecutive_errors, reason of a break or "">>
PageOutcome(resp, page, errors) ==
    IF resp.kind = "exception" THEN <<<<>>, errors + 1, "">>
    ELSE IF resp.status = HttpOk
    THEN IF resp.body.marker THEN <<<<>>, errors, "marker">>
         ELSE LET page_deputadas == parse_deputadas_results(resp.body, PageUrl(page))
              IN  IF page_deputadas # <<>> THEN <<page_deputadas, 0, "">>
                  ELSE IF ~ resp.body.keyword THEN <<<<>>, errors, "empty">>
                  ELSE <<<<>>, errors + 1, "">>
    ELSE IF resp.status = HttpNotFound THEN <<<<>>, errors, "404">>
    ELSE <<<<>>, errors + 1, "">>

\* lines 1150-1213: one turn of the while loop
FetchPage(resp) ==
    /\ pc = "paging"
    /\ consecutive_errors < max_consecutive_errors
    /\ current_page < MaxPage
    /\ \E out \in {PageOutcome(resp, current_page + 1, consecutive_errors)} :
           /\ current_page' = current_page + 1
           /\ pages' = Append(pages, resp)
           /\ all_deputadas' = all_deputadas \o out[1]
           /\ consecutive_errors' = out[2]
           /\ halt' = out[3]
           /\ pc' = IF out[3] # "" THEN "after_loop" ELSE "paging"
    /\ last_net' = "request"          \* time.sleep(2) (line 1154), then session.get
    /\ UNCHANGED unthrottled
    /\ UNCHANGED returned
    /\ UNCHANGED <<exVars, enrVars, tseVars, tabVars, cnvVars, conVars>>

\* the while condition fails
ExitLoop ==
    /\ pc = "paging"
    /\ ~ (consecutive_errors < max_consecutive_errors)
    /\ halt' = "errors"
    /\ pc' = "after_loop"
    /\ UNCHANGED <<current_page, consecutive_errors, all_deputadas, pages, returned>>
    /\ UNCHANGED <<exVars, enrVars, tseVars, netVars, tabVars, cnvVars, conVars>>

\* lines 1215-1226
ReturnResults ==
    /\ pc = "after_loop"
    /\ IF all_deputadas # <<>>
       THEN /\ pc' = "collect"
            /\ deputadas' = all_deputadas
            /\ detailed_deputadas' = <<>>
            /\ idx' = 1
            /\ profiles' = <<>>
            /\ UNCHANGED <<returned, pipeline>>
       ELSE /\ pc' = "returned"
            /\ returned' = all_deputadas
            /\ UNCHANGED enrVars
    /\ UNCHANGED <<current_page, consecutive_errors, all_deputadas, pages, halt>>
    /\ UNCHANGED <<exVars, tseVars, netVars, tabVars, cnvVars, conVars>>

(***************************************************************************)
(* extract_profile_details (deputadas and senadoras).  A profile page is   *)
(*   soup_raises : BeautifulSoup(response.content) raises;                 *)
(*   text_raises : the first statement of the function's try block raises; *)
(*   headings    : the texts of the h1/h2 elements (deputadas) or of the   *)
(*                 h1 elements (senadoras), in document order.             *)
(* The model's profile pages hold nothing the other patterns match, so     *)
(* every other detail field keeps its default ''.                          *)
(***************************************************************************)
NomeCivilMin == 3
NomeCivilMax == 100

RECURSIVE FirstHeading(_)
FirstHeading(headings) ==
    IF headings = <<>> THEN <<>>
    ELSE LET text == Strip(Head(headings))
         IN  IF text # <<>> /\ Len(text) > NomeCivilMin /\ Len(text) < NomeCivilMax
             THEN text
             ELSE FirstHeading(Tail(headings))

DetalhesDeputada(page, perfil_url) ==
    [nome_civil           |-> IF page.text_raises THEN <<>> ELSE FirstHeading(page.headings),
     partido_detalhado    |-> <<>>,
     naturalidade         |-> <<>>,
     titulo_cargo         |-> <<>>,
     propostas_autoria    |-> <<>>,
     propostas_relatadas  |-> <<>>,
     votacoes_plenario    |-> <<>>,
     url_perfil_detalhado |-> perfil_url,
     perfil_detalhado     |-> "Coletado"]

DetalhesSenadora(page, perfil_url) ==
    [nome_civil           |-> IF page.text_raises \/ page.headings = <<>> THEN <<>>
                              ELSE Prefix(Strip(Head(page.headings)), NomeCivilMax),
     data_nascimento      |-> <<>>,
     naturalidade         |-> <<>>,
     profissao            |-> <<>>,
     formacao             |-> <<>>,
     numero_mandatos      |-> <<>>,
     comissoes            |-> <<>>,
     biografia_resumida   |-> <<>>,
     url_perfil_detalhado |-> perfil_url]

\* mutant: the details carry the key 'nome' too, set to the name of the page
extract_profile_details_OverwritesName(pl, page, perfil_url) ==
    LET detalhes == IF pl = "deputadas" THEN DetalhesDeputada(page, perfil_url)
                    ELSE DetalhesSenadora(page, perfil_url)
    IN  [k \in DOMAIN detalhes \cup {"nome"} |->
            IF k = "nome" THEN detalhes.nome_civil ELSE detalhes[k]]

extract_profile_details(pl, page, perfil_url) ==
    IF pl = "deputadas" THEN DetalhesDeputada(page, perfil_url)
    ELSE DetalhesSenadora(page, perfil_url)

\* Python's {**a, **b}
Merge(a, b) ==
    [k \in DOMAIN a \cup DOMAIN b |-> IF k \in DOMAIN b THEN b[k] ELSE a[k]]

ProfilePages ==
    { [soup_raises |-> FALSE, text_raises |-> FALSE,
       headings |-> << <<"A","n","a">>, <<"A","n","a"," ","L","u">> >>],
      [soup_raises |-> FALSE, text_raises |-> TRUE,  headings |-> <<>>],
      [soup_raises |-> TRUE,  text_raises |-> FALSE, headings |-> <<>>] }

ProfileResponses ==
    {Ok(p) : p \in ProfilePages} \cup {Status(HttpError), FetchRaises}

\* the profile answers of a run of the whole paginator
FewProfileResponses ==
    { Ok([soup_raises |-> FALSE, text_raises |-> FALSE,
          headings |-> << <<"A","n","a"," ","L","u">> >>]),
      FetchRaises }

NoRequest == [kind |-> "skipped"]      \* no request is made for this record

(***************************************************************************)
(* collect_detailed_profiles (deputadas lines 1389-1449, senadoras lines   *)
(* 172-210).                                                               *)
(***************************************************************************)
\* mutant: a record whose profile answers with an error status is not appended
AppendedRecords_DropOnError(pl, deputada, resp) ==
    IF resp.kind = "skipped" THEN <<deputada>>
    ELSE IF resp.kind = "exception" THEN <<deputada>>
    ELSE IF resp.status = HttpOk
    THEN IF resp.body.soup_raises THEN <<deputada>>
         ELSE <<Merge(deputada,
                      extract_profile_details(pl, resp.body, deputada.link_perfil))>>
    ELSE <<>>

\* mutant: the except branch marks the record it appends
AppendedRecords_ErrorMarker(pl, deputada, resp) ==
    IF resp.kind = "skipped" THEN <<deputada>>
    ELSE IF resp.kind = "exception"
    THEN <<Merge(deputada, [perfil_detalhado |-> "Erro"])>>
    ELSE IF resp.status = HttpOk
    THEN IF resp.body.soup_raises THEN <<deputada>>
         ELSE <<Merge(deputada,
                      extract_profile_details(pl, resp.body, deputada.link_perfil))>>
    ELSE <<deputada>>

\* the records one turn of the for loop appends for `deputada`, resp being the
\* answer to its request (NoRequest when the record has no profile link)
AppendedRecords(pl, deputada, resp) ==
    IF resp.kind = "skipped" THEN <<deputada>>               \* `if not perfil_url`
    ELSE IF resp.kind = "exception" THEN <<deputada>>        \* except: append(deputada)
    ELSE IF resp.status = HttpOk
    THEN IF resp.body.soup_raises THEN <<deputada>>          \* raised before the append
         ELSE <<Merge(deputada,
                      extract_profile_details(pl, resp.body, deputada.link_perfil))>>
    ELSE <<deputada>>

\* the turn that got resp reaches the time.sleep at the end of its try block
\* (lines 1437-1442, senadoras line 203): the request did not raise, and
\* neither did the parsing of a page with status 200
SleepsAfter(resp) ==
    /\ resp.kind = "response"
    /\ ~ (resp.status = HttpOk /\ resp.body.soup_raises)

\* one turn of the for loop
CollectStep(resp) ==
    /\ pc = "collect"
    /\ idx <= Len(deputadas)
    /\ (resp = NoRequest) <=> (deputadas[idx].link_perfil = <<>>)
    /\ detailed_deputadas' =
           detailed_deputadas \o AppendedRecords(pipeline, deputadas[idx], resp)
    /\ profiles' = Append(profiles, resp)
    /\ idx' = idx + 1
    /\ IF resp = NoRequest
       THEN UNCHANGED netVars
       ELSE /\ unthrottled' = (unthrottled \/ last_net = "request")
            /\ last_net' = IF SleepsAfter(resp) THEN "sleep" ELSE "request"
    /\ UNCHANGED <<pc, pipeline, deputadas>>
    /\ UNCHANGED <<exVars, pagVars, tseVars, tabVars, cnvVars, conVars>>

\* `return detailed_deputadas`
CollectReturn ==
    /\ pc = "collect"
    /\ idx > Len(deputadas)
    /\ returned' = detailed_deputadas
    /\ pc' = "returned"
    /\ UNCHANGED <<current_page, consecutive_errors, all_deputadas, pages, halt>>
    /\ UNCHANGED <<exVars, enrVars, tseVars, netVars, tabVars, cnvVars, conVars>>

(***************************************************************************)
(* The TSE CSV/ZIP filter: the row loop of processar_csvs_em_memoria       *)
(* (csv_to_json_vereadoras.py) and of processar_dados                      *)
(* (coletor_dados_abertos_vereadoras.py).  A row is a function from the    *)
(* columns of the file's header to values; csv.DictReader gives a row      *)
(* shorter than the header the value None for the columns it lacks.        *)
(***************************************************************************)
PyNone == <<"<None>">>

\* dict.get(key, default)
Get(row, key, default) == IF key \in DOMAIN row THEN row[key] ELSE default

\* str(x)
Str(x) == IF x = PyNone THEN <<"N","o","n","e">> ELSE x

Eleito         == <<"E","L","E","I","T","O">>
EleitoPorQP    == Eleito \o <<" ","P","O","R"," ","Q","P">>
EleitoPorMedia == Eleito \o <<" ","P","O","R"," ","M","E'","D","I","A">>
NaoEleito      == <<"N","A~","O"," ">> \o Eleito
Suplente       == <<"S","U","P","L","E","N","T","E">>
Nulo           == <<"#","N","U","L","O","#">>

termos_vitoria == {Eleito, EleitoPorQP, EleitoPorMedia}

CargoVereador   == <<"1","3">>
GeneroMasculino == <<"2">>
GeneroFeminino  == <<"4">>

NaoDivulgavel  == <<"n","a~","o"," ","d","i","v","u","l","g","a'","v","e","l">>
NaoDivulgado   == <<"N","a~","o"," ","d","i","v","u","l","g","a","d","o">>
NaoInformado   == <<"N","a~","o"," ","I","n","f","o","r","m","a","d","o">>

ZeroStats ==
    [total_eleitos_geral |-> 0, total_homens_eleitos |-> 0,
     total_mulheres_eleitas |-> 0, total_nao_divulgado_eleitos |-> 0]

Bump(st, key) == [st EXCEPT ![key] = @ + 1]

\* the dictionary dados_vereadora
DadosVereadora(row, situacao, email) ==
    LET cidade_nasc == Get(row, "NM_MUNICIPIO_NASCIMENTO", NaoInformado)
        uf_nasc     == Get(row, "SG_UF_NASCIMENTO", <<>>)
    IN  [nome            |-> Get(row, "NM_URNA_CANDIDATO", PyNone),
         nome_civil      |-> Get(row, "NM_CANDIDATO", PyNone),
         partido         |-> Get(row, "SG_PARTIDO", PyNone),
         uf              |-> Get(row, "SG_UF", PyNone),
         municipio       |-> Get(row, "NM_UE", PyNone),
         periodo_mandato |-> <<"2","0","2","5","-","2","0","2","8">>,
         naturalidade    |-> IF uf_nasc # <<>> /\ uf_nasc # PyNone    \* `if uf_nasc`
                             THEN Str(cidade_nasc) \o <<" ","-"," ">> \o Str(uf_nasc)
                             ELSE NaoInformado,
         situacao        |-> situacao,
         data_nascimento |-> Get(row, "DT_NASCIMENTO", PyNone),
         grau_instrucao  |-> Get(row, "DS_GRAU_INSTRUCAO", PyNone),
         ocupacao        |-> Get(row, "DS_OCUPACAO", PyNone),
         estado_civil    |-> Get(row, "DS_ESTADO_CIVIL", PyNone),
         cor_raca        |-> Get(row, "DS_COR_RACA", PyNone),
         email           |-> email,
         fonte_dados     |-> "TSE - Dados Abertos 2024",
         url_fonte       |-> "consulta_cand_2024.zip",
         data_extracao   |-> Now]

\* mutant: the else branch of the gender test does not count the row
TallyGender_OtherNotCounted(row, st, situacao) ==
    LET st1        == Bump(st, "total_eleitos_geral")
        cod_genero == Get(row, "CD_GENERO", PyNone)
    IN  IF cod_genero = GeneroMasculino
        THEN [stats |-> Bump(st1, "total_homens_eleitos"), records |-> <<>>, raised |-> FALSE]
        ELSE IF cod_genero # GeneroFeminino
        THEN [stats |-> st1, records |-> <<>>, raised |-> FALSE]
        ELSE LET st2    == Bump(st1, "total_mulheres_eleitas")
                 email0 == Get(row, "DS_EMAIL", <<>>)
             IN  IF email0 = PyNone
                 THEN [stats |-> st2, records |-> <<>>, raised |-> TRUE]
                 ELSE LET email == IF Contains(Lower(email0), NaoDivulgavel)
                                   THEN NaoDivulgado ELSE Lower(email0)
                      IN  [stats |-> st2,
                           records |-> <<DadosVereadora(row, situacao, email)>>,
                           raised |-> FALSE]

\* the gender tally and what follows it (lines 104-147 / 98-137): the
\* statistics and the records appended
TallyGender(row, st, situacao) ==
    LET st1        == Bump(st, "total_eleitos_geral")
        cod_genero == Get(row, "CD_GENERO", PyNone)
    IN  IF cod_genero = GeneroMasculino
        THEN [stats |-> Bump(st1, "total_homens_eleitos"), records |-> <<>>, raised |-> FALSE]
        ELSE IF cod_genero # GeneroFeminino
        THEN [stats |-> Bump(st1, "total_nao_divulgado_eleitos"), records |-> <<>>, raised |-> FALSE]
        ELSE LET st2    == Bump(st1, "total_mulheres_eleitas")
                 email0 == Get(row, "DS_EMAIL", <<>>)
             IN  IF email0 = PyNone
                 THEN [stats |-> st2, records |-> <<>>, raised |-> TRUE]    \* None.lower() raises
                 ELSE LET email == IF Contains(Lower(email0), NaoDivulgavel)
                                   THEN NaoDivulgado ELSE Lower(email0)
                      IN  [stats |-> st2,
                           records |-> <<DadosVereadora(row, situacao, email)>>,
                           raised |-> FALSE]

\* mutant: the row is tallied before its outcome status is looked at
ProcessLinha_TallyBeforeStatus(im, row, st) ==
    LET skip     == [stats |-> st, records |-> <<>>, raised |-> FALSE]
        situacao == Upper(Str(Get(row, "DS_SIT_TOT_TURNO", <<>>)))
    IN  IF im = "coletor" /\ ("CD_CARGO" \notin DOMAIN row \/ "CD_GENERO" \notin DOMAIN row)
        THEN skip
        ELSE IF Get(row, "CD_CARGO", PyNone) # CargoVereador THEN skip
        ELSE IF situacao \notin termos_vitoria
        THEN [stats |-> TallyGender(row, st, situacao).stats, records |-> <<>>, raised |-> FALSE]
        ELSE TallyGender(row, st, situacao)

\* the body of `for linha in leitor`, exceptions included
ProcessLinha(im, row, st) ==
    LET skip     == [stats |-> st, records |-> <<>>, raised |-> FALSE]
        situacao == Upper(Str(Get(row, "DS_SIT_TOT_TURNO", <<>>)))
    IN  IF im = "coletor" /\ ("CD_CARGO" \notin DOMAIN row \/ "CD_GENERO" \notin DOMAIN row)
        THEN skip
        ELSE IF Get(row, "CD_CARGO", PyNone) # CargoVereador THEN skip
        ELSE IF situacao \notin termos_vitoria THEN skip
        ELSE IF Contains(situacao, Suplente) \/ Contains(situacao, NaoEleito) THEN skip
        ELSE TallyGender(row, st, situacao)

\* the rows the model's files hold
Columns(cargo, sit, genero, nome, email) ==
    [CD_CARGO |-> cargo, DS_SIT_TOT_TURNO |-> sit, CD_GENERO |-> genero,
     NM_URNA_CANDIDATO |-> nome, NM_CANDIDATO |-> <<"A","N","A"," ","B">>,
     DS_EMAIL |-> email]

Without(row, key) == [k \in DOMAIN row \ {key} |-> row[k]]

FullRows ==
    { Columns(c, s, g, n, e) :
        c \in {CargoVereador, <<"1","1">>},
        s \in {Eleito, Lower(EleitoPorQP), NaoEleito, <<>>},
        g \in {GeneroMasculino, GeneroFeminino, <<"-","4">>},
        n \in {<<"A","N","A">>, <<>>},
        e \in {<<"A","@","B">>, Upper(NaoDivulgavel), PyNone} }

\* a row of a file whose only columns are these four
MinimalRow(x) ==
    [CD_CARGO |-> CargoVereador, CD_GENERO |-> GeneroFeminino,
     DS_SIT_TOT_TURNO |-> Eleito, NM_CANDIDATO |-> x]

MinimalRows ==
    { MinimalRow(x) : x \in {<<"M","A","R","I","A"," ","S">>, <<"A","N","A">>} }

RowSamples ==
    FullRows
    \cup MinimalRows
    \cup { Without(r, "CD_GENERO") : r \in {Columns(CargoVereador, Eleito, GeneroFeminino, <<"A","N","A">>, <<"A","@","B">>)} }
    \cup { Without(r, "DS_EMAIL")  : r \in {Columns(CargoVereador, EleitoPorMedia, GeneroFeminino, <<"A","N","A">>, <<>>)} }

\* what a raw row is, for the history counters
RowCargo13(row)  == "CD_CARGO" \in DOMAIN row /\ row["CD_CARGO"] = CargoVereador
RowStatus(row)   == Upper(Str(Get(row, "DS_SIT_TOT_TURNO", <<>>)))
RowEleito(row)   == RowStatus(row) \in termos_vitoria
RowGenero(row)   == Get(row, "CD_GENERO", PyNone)
RowHasEmail(row) == Get(row, "DS_EMAIL", <<>>) # PyNone

\* a row the implementation im lets through its office and status filters
RowCounted(im, row) ==
    /\ RowCargo13(row)
    /\ RowEleito(row)
    /\ im = "coletor" => "CD_GENERO" \in DOMAIN row

ZeroSeen == [cargo13 |-> 0, eleitos |-> 0, homens |-> 0, mulheres |-> 0, registros |-> 0]

Plus(s, key, cond) == IF cond THEN [s EXCEPT ![key] = @ + 1] ELSE s

Observe(im, row, s) ==
    LET c  == RowCounted(im, row)
        s1 == Plus(s,  "cargo13",   RowCargo13(row))
        s2 == Plus(s1, "eleitos",   c)
        s3 == Plus(s2, "homens",    c /\ RowGenero(row) = GeneroMasculino)
        s4 == Plus(s3, "mulheres",  c /\ RowGenero(row) = GeneroFeminino)
    IN  Plus(s4, "registros", c /\ RowGenero(row) = GeneroFeminino /\ RowHasEmail(row))

\* what the processing function hands back
Pending          == [kind |-> "pending"]
ReturnsNone      == [kind |-> "None"]
ReturnsEmptyList == [kind |-> "list", items |-> <<>>]
ReturnsTuple(v, st, n) ==
    [kind |-> "tuple", vereadoras |-> v, stats |-> st, arquivos_processados |-> n]
ReturnsDict(v, st) ==
    [kind |-> "dict", vereadoras |-> v, total_vereadores_brasil |-> st.total_eleitos_geral,
     stats |-> st]
RaisesOut(e)     == [kind |-> "raised", error |-> e]

\* the archive is opened: zipfile.ZipFile(...) and the list arquivos_csv
\* (csv_to_json lines 58-67, coletor lines 59-68)
OpenArchive(outcome, n) ==
    /\ pc = "tse_start"
    /\ IF outcome = "ok"
       THEN /\ membros' = n
            /\ pc' = "tse_files"
            /\ UNCHANGED resultado
       ELSE /\ resultado' = IF impl = "coletor" THEN ReturnsEmptyList ELSE ReturnsNone
            /\ pc' = "tse_returned"
            /\ UNCHANGED membros
    /\ UNCHANGED <<impl, stats, vereadoras, linha, nrows, nfiles, falhas,
                   arquivos_processados, seen, termination>>
    /\ UNCHANGED <<exVars, pagVars, enrVars, netVars, tabVars, cnvVars, conVars>>

\* the for loop over arquivos_csv reaches the next member file and opens it
OpenFile ==
    /\ pc = "tse_files"
    /\ nfiles < membros
    /\ nfiles' = nfiles + 1
    /\ pc' = "tse_rows"
    /\ UNCHANGED <<impl, stats, vereadoras, linha, nrows, membros, falhas,
                   arquivos_processados, seen, resultado, termination>>
    /\ UNCHANGED <<exVars, pagVars, enrVars, netVars, tabVars, cnvVars, conVars>>

\* z.open(nome_arq) or the reader raises: csv_to_json has a try around each
\* member file (lines 78, 155-157), coletor has only the outer one (142-144)
FileRaises ==
    /\ \/ pc = "tse_files" /\ nfiles < membros /\ nfiles' = nfiles + 1
       \/ pc = "tse_rows" /\ UNCHANGED nfiles
    /\ falhas' = falhas + 1
    /\ IF impl = "coletor"
       THEN /\ resultado' = ReturnsEmptyList
            /\ pc' = "tse_returned"
       ELSE /\ UNCHANGED resultado
            /\ pc' = "tse_files"
    /\ UNCHANGED <<impl, stats, vereadoras, linha, nrows, membros,
                   arquivos_processados, seen, termination>>
    /\ UNCHANGED <<exVars, pagVars, enrVars, netVars, tabVars, cnvVars, conVars>>

\* one turn of `for linha in leitor`
ReadRow(row) ==
    /\ pc = "tse_rows"
    /\ nrows < MaxRows
    /\ \E out \in {ProcessLinha(impl, row, stats)} :
           /\ stats' = out.stats
           /\ vereadoras' = vereadoras \o out.records
    /\ linha' = row
    /\ nrows' = nrows + 1
    /\ seen' = Observe(impl, row, seen)
    /\ UNCHANGED <<pc, impl, membros, nfiles, falhas, arquivos_processados,
                   resultado, termination>>
    /\ UNCHANGED <<exVars, pagVars, enrVars, netVars, tabVars, cnvVars, conVars>>

\* the reader is exhausted (csv_to_json lines 152-153)
EndOfFile ==
    /\ pc = "tse_rows"
    /\ pc' = "tse_files"
    /\ arquivos_processados' =
           IF impl = "csv_to_json" THEN arquivos_processados + 1 ELSE arquivos_processados
    /\ UNCHANGED <<impl, stats, vereadoras, linha, nrows, membros, nfiles, falhas,
                   seen, resultado, termination>>
    /\ UNCHANGED <<exVars, pagVars, enrVars, netVars, tabVars, cnvVars, conVars>>

\* after the last member file: csv_to_json returns the pair (line 163),
\* coletor computes the percentage without a guard (line 148) and returns
\* resultado_final
EndOfArchive ==
    /\ pc = "tse_files"
    /\ nfiles = membros
    /\ resultado' =
           IF impl = "csv_to_json"
           THEN ReturnsTuple(vereadoras, stats, arquivos_processados)
           ELSE IF stats.total_eleitos_geral = 0
           THEN RaisesOut("ZeroDivisionError")
           ELSE ReturnsDict(vereadoras, stats)
    /\ pc' = "tse_returned"
    /\ UNCHANGED <<impl, stats, vereadoras, linha, nrows, membros, nfiles, falhas,
                   arquivos_processados, seen, termination>>
    /\ UNCHANGED <<exVars, pagVars, enrVars, netVars, tabVars, cnvVars, conVars>>

\* the rest of the caller: executar_conversao lines 221-246 and main 253-257
\* of csv_to_json (saved: json.dump succeeded), main lines 176-185 of coletor
HowMainEnds(im, res, saved) ==
    IF im = "csv_to_json"
    THEN IF res.kind = "None" THEN "exit(1)"
         ELSE IF ~ saved THEN "exit(1)"
         ELSE IF res.stats.total_eleitos_geral = 0 THEN "ZeroDivisionError"
         ELSE "return"
    ELSE IF res.kind = "raised" THEN res.error
         ELSE IF res.kind = "list" THEN "TypeError"
         ELSE IF ~ saved THEN "OSError"
         ELSE "return"

MainFinish(saved) ==
    /\ pc = "tse_returned"
    /\ termination' = HowMainEnds(impl, resultado, saved)
    /\ pc' = "tse_exit"
    /\ UNCHANGED <<impl, stats, vereadoras, linha, nrows, membros, nfiles, falhas,
                   arquivos_processados, seen, resultado>>
    /\ UNCHANGED <<exVars, pagVars, enrVars, netVars, tabVars, cnvVars, conVars>>

(***************************************************************************)
(* webscraping_vereadoras.py: parse_and_filter_vereadoras, the filter of   *)
(* the national CSV by the text columns DS_CARGO, DS_GENERO, ...           *)
(***************************************************************************)
CARGO_VEREADOR  == <<"V","E","R","E","A","D","O","R">>
GENERO_FEMININO == <<"F","E","M","I","N","I","N","O">>
SITUACAO_ELEITO == Eleito
Deferido        == <<"D","E","F","E","R","I","D","O">>
Apto            == <<"A","P","T","O">>

\* calculate_age: "" for a date that is empty or shorter than 8 characters
\* (the rows of the model carry no other date)
calculate_age(data_nascimento) ==
    IF data_nascimento = <<>> \/ Len(data_nascimento) < 8 THEN <<>> ELSE <<"?">>

\* extract_vereadora_data: the record of a row that passed the filters
extract_vereadora_data(row_dict) ==
    [nome_urna            |-> Get(row_dict, "NM_URNA_CANDIDATO", Get(row_dict, "NM_CANDIDATO", <<>>)),
     nome_completo        |-> Get(row_dict, "NM_CANDIDATO", <<>>),
     partido              |-> Get(row_dict, "SG_PARTIDO", <<>>),
     numero_candidato     |-> Get(row_dict, "NR_CANDIDATO", <<>>),
     uf                   |-> Get(row_dict, "SG_UF", <<>>),
     municipio            |-> Get(row_dict, "NM_UE", <<>>),
     situacao_candidatura |-> Get(row_dict, "DS_SITUACAO_CANDIDATURA", <<>>),
     situacao_totalizacao |-> Get(row_dict, "DS_SIT_TOT_TURNO", NaoInformado),
     genero               |-> Get(row_dict, "DS_GENERO", <<>>),
     cor_raca             |-> Get(row_dict, "DS_COR_RACA", <<>>),
     grau_instrucao       |-> Get(row_dict, "DS_GRAU_INSTRUCAO", <<>>),
     data_nascimento      |-> Get(row_dict, "DT_NASCIMENTO", <<>>),
     idade                |-> calculate_age(Get(row_dict, "DT_NASCIMENTO", <<>>)),
     cpf                  |-> Get(row_dict, "NR_CPF_CANDIDATO", <<>>),
     email                |-> Get(row_dict, "NM_EMAIL", <<>>),
     numero_urna          |-> Get(row_dict, "NR_CANDIDATO", <<>>),
     composicao_legenda   |-> Get(row_dict, "DS_COMPOSICAO_LEGENDA", <<>>),
     estado_civil         |-> Get(row_dict, "DS_ESTADO_CIVIL", <<>>),
     ocupacao             |-> Get(row_dict, "DS_OCUPACAO", <<>>),
     fonte_dados          |-> "TSE - Portal de Dados Abertos",
     data_extracao        |-> Now,
     ano_eleicao          |-> "2024"]

\* the body of `for i, line in enumerate(lines[1:], 1)`: the records one
\* line adds (lines 281-328); wellformed: the line has as many values as the
\* header has names
FilterLine(wellformed, row_dict) ==
    LET cargo         == Upper(Get(row_dict, "DS_CARGO", <<>>))
        genero        == Upper(Get(row_dict, "DS_GENERO", <<>>))
        situacao_cand == Upper(Get(row_dict, "DS_SITUACAO_CANDIDATURA", <<>>))
        situacao_tot  == Upper(Get(row_dict, "DS_SIT_TOT_TURNO", <<>>))
    IN  IF ~ wellformed THEN <<>>
        ELSE IF ~ Contains(cargo, CARGO_VEREADOR) THEN <<>>
        ELSE IF ~ Contains(genero, GENERO_FEMININO) THEN <<>>
        ELSE IF ~ Contains(situacao_cand, Deferido) /\ ~ Contains(situacao_cand, Apto) THEN <<>>
        ELSE IF /\ situacao_tot # <<>> /\ ~ Contains(situacao_tot, SITUACAO_ELEITO)
                /\ situacao_tot # Nulo
        THEN <<>>
        ELSE <<extract_vereadora_data(row_dict)>>

WebColumns(cargo, genero, cand, tot) ==
    [DS_CARGO |-> cargo, DS_GENERO |-> genero, DS_SITUACAO_CANDIDATURA |-> cand,
     DS_SIT_TOT_TURNO |-> tot, NM_URNA_CANDIDATO |-> <<"A","N","A">>,
     NM_CANDIDATO |-> <<"A","N","A"," ","B">>]

WebRows ==
    { WebColumns(c, g, d, t) :
        c \in {CARGO_VEREADOR, Lower(CARGO_VEREADOR), <<"P","R","E","F","E","I","T","O">>},
        g \in {GENERO_FEMININO, <<"M","A","S","C","U","L","I","N","O">>},
        d \in {Deferido, Apto, <<"I","N">> \o Deferido, <<"R","E","N","U'","N","C","I","A">>},
        t \in {Eleito, EleitoPorQP, NaoEleito, Suplente, Nulo, <<>>} }
    \cup { Without(WebColumns(CARGO_VEREADOR, GENERO_FEMININO, Apto, <<>>), "DS_SIT_TOT_TURNO") }

\* one turn of the line loop
ReadLine(wellformed, row_dict) ==
    /\ pc = "web_rows"
    /\ nrows < MaxRows
    /\ vereadoras' = vereadoras \o FilterLine(wellformed, row_dict)
    /\ linha' = row_dict
    /\ nrows' = nrows + 1
    /\ UNCHANGED <<pc, impl, stats, membros, nfiles, falhas, arquivos_processados,
                   seen, resultado, termination>>
    /\ UNCHANGED <<exVars, pagVars, enrVars, netVars, tabVars, cnvVars, conVars>>

\* the lines are exhausted: return vereadoras (line 336)
EndOfCsv ==
    /\ pc = "web_rows"
    /\ resultado' = [kind |-> "list", items |-> vereadoras]
    /\ pc' = "web_returned"
    /\ UNCHANGED <<impl, stats, vereadoras, linha, nrows, membros, nfiles, falhas,
                   arquivos_processados, seen, termination>>
    /\ UNCHANGED <<exVars, pagVars, enrVars, netVars, tabVars, cnvVars, conVars>>

(***************************************************************************)
(* The text extractor and the record builder run on one element.           *)
(***************************************************************************)
ExtractText ==
    /\ pc = "extract_text"
    /\ text_out' = extract_text_by_selectors(selectors)
    /\ pc' = "extracted"
    /\ UNCHANGED <<selectors, element, built>>
    /\ UNCHANGED <<pagVars, enrVars, tseVars, netVars, tabVars, cnvVars, conVars>>

BuildRecord ==
    /\ pc = "build"
    /\ built' = extract_deputada_from_element(element, BaseUrl)
    /\ pc' = "built"
    /\ UNCHANGED <<selectors, text_out, element>>
    /\ UNCHANGED <<pagVars, enrVars, tseVars, netVars, tabVars, cnvVars, conVars>>

(***************************************************************************)
(* Inputs and initial states.                                              *)
(***************************************************************************)
SeqsUpTo(S, n) == UNION {[1..k -> S] : k \in 0..n}

TextSamples ==
    { <<>>, <<" ">>, <<"a">>, <<" ","a"," ">>, <<"a","b">>,
      <<" ","b","a"," ">>, <<"a"," ","c">> }

SelectorOutcomes == {SelRaise, SelNone} \cup {SelText(t) : t \in TextSamples}

NameSamples ==
    { <<"A","n","a">>, <<"O","k">>, <<"1","2","3">>,
      <<"M","e","n","u"," ","A","n","a">>,
      <<" ">> \o Rep("a", NameMaxLen) \o <<" ">>,
      Rep("a", NameMaxLen + 1),
      <<"1">> \o Rep("-", NameMaxLen) }

NameOutcomes == {SelRaise, SelNone} \cup {SelText(t) : t \in NameSamples}

HrefSamples == { <<>>, <<"/deputados/", "1">>, <<"http", "/deputados/", "3">>, <<"/outro">> }

\* a text of 51 characters whose 50th is a blank
LongField == Rep("a", CleanTextMax - 1) \o <<" ", "b">>

\* what the selectors of a short descriptive field (partido, uf, legislatura,
\* situacao) yield: nothing, a short text, a text of exactly 50 characters, a
\* longer one
FieldOutcomes ==
    { <<SelRaise>>, Txt(<<" ","S","P">>), Txt(Rep("a", CleanTextMax)), Txt(LongField) }

Elements ==
    { [Elem(n, h) EXCEPT !.bs4_raises = r, !.partido = f, !.uf = f,
                         !.legislatura = f, !.situacao = f] :
        n \in SeqsUpTo(NameOutcomes, MaxSelectors), h \in HrefSamples, r \in BOOLEAN,
        f \in FieldOutcomes }

SenadoHost == "https://www25.senado.leg.br"

\* the dictionary senadora_data of extract_senadoras_from_filtered_table
SenadoraData(nome, href) ==
    [nome            |-> Strip(nome),
     partido         |-> <<"P","T">>,
     uf              |-> <<"S","P">>,
     periodo_mandato |-> <<"2","0","2","3">>,
     telefones       |-> <<>>,
     email           |-> <<"a","@","b">>,
     link_perfil     |-> IF href # <<>> /\ Head(href) # "http"
                         THEN <<SenadoHost>> \o href ELSE href,
     fonte_dados     |-> "Web Scraping HTML",
     url_fonte       |-> BaseUrl,
     data_extracao   |-> Now,
     metodo_extracao |-> "BeautifulSoup - Senado Federal (filtro por sexo)"]

BaseRecords(pl) ==
    IF pl = "deputadas"
    THEN Range(ValidRecords(<<ElemAna, ElemBia, ElemEva>>, BaseUrl))
    ELSE { SenadoraData(<<"A","n","a">>, <<"/senadora/", "1">>),
           SenadoraData(<<"B","i","a">>, <<>>),
           SenadoraData(<<"E","v","a">>, <<"http", "/senadora/", "3">>) }

\* no request made yet
IdleNet ==
    /\ last_net = "none"
    /\ unthrottled = FALSE

\* the caller has just fetched the listing page (scrape_deputadas_list line
\* 1075) and hands its response over
ListingFetched ==
    /\ last_net = "request"
    /\ unthrottled = FALSE

\* no file written yet
NoFile == [kind |-> "no file"]

IdleTab ==
    /\ rows = <<>>
    /\ row_i = 1
    /\ inside_feminino_section = FALSE
    /\ inside_masculino_section = FALSE
    /\ senadoras = <<>>
    /\ total_homens = 0

IdleCnv ==
    /\ csv_file = NoFile
    /\ senadoras_data = <<>>
    /\ temp_stats = NoFile
    /\ json_output = NoFile
    /\ converted = ""

IdleCon ==
    /\ json_files = <<>>
    /\ deputadas_list = <<>>
    /\ senadoras_list = <<>>
    /\ vereadoras_list = <<>>
    /\ consolidated_data = <<>>
    /\ output_json = NoFile
    /\ success = ""

IdleEx ==
    /\ selectors = <<>>
    /\ text_out = Found(<<>>)
    /\ element = ElemShort
    /\ built = NoRecord

IdlePag ==
    /\ current_page = 1
    /\ consecutive_errors = 0
    /\ all_deputadas = <<>>
    /\ pages = <<>>
    /\ halt = ""
    /\ returned = <<>>

IdleEnr ==
    /\ pipeline = "deputadas"
    /\ deputadas = <<>>
    /\ detailed_deputadas = <<>>
    /\ idx = 1
    /\ profiles = <<>>

IdleTse ==
    /\ impl = "csv_to_json"
    /\ stats = ZeroStats
    /\ vereadoras = <<>>
    /\ linha = <<>>
    /\ nrows = 0
    /\ membros = 0
    /\ nfiles = 0
    /\ falhas = 0
    /\ arquivos_processados = 0
    /\ seen = ZeroSeen
    /\ resultado = Pending
    /\ termination = ""

\* extract_text_by_selectors on every selector list of the bounded set
InitExtractor ==
    /\ pc = "extract_text"
    /\ selectors \in SeqsUpTo(SelectorOutcomes, MaxSelectors)
    /\ text_out = Found(<<>>)
    /\ element = ElemShort
    /\ built = NoRecord
    /\ IdlePag /\ IdleEnr /\ IdleTse /\ IdleNet
    /\ IdleTab /\ IdleCnv /\ IdleCon

NextExtractor == ExtractText

SpecExtractor == InitExtractor /\ [][NextExtractor]_vars

\* extract_deputada_from_element on every element of the bounded set
InitBuilder ==
    /\ pc = "build"
    /\ element \in Elements
    /\ selectors = <<>>
    /\ text_out = Found(<<>>)
    /\ built = NoRecord
    /\ IdlePag /\ IdleEnr /\ IdleTse /\ IdleNet
    /\ IdleTab /\ IdleCnv /\ IdleCon

NextBuilder == BuildRecord

SpecBuilder == InitBuilder /\ [][NextBuilder]_vars

\* mutant: a failed first request is counted as the first consecutive error
\* and the page loop goes on
FetchListing_CountsError(resp) ==
    /\ pc = "listing"
    /\ pages' = <<resp>>
    /\ last_net' = "request"
    /\ IF resp.kind = "response" /\ resp.status = HttpOk
       THEN /\ pc' = "first_page"
            /\ UNCHANGED <<returned, consecutive_errors>>
       ELSE /\ pc' = "paging"
            /\ consecutive_errors' = consecutive_errors + 1
            /\ UNCHANGED returned
    /\ UNCHANGED <<current_page, all_deputadas, halt, unthrottled>>
    /\ UNCHANGED <<exVars, enrVars, tseVars, tabVars, cnvVars, conVars>>

\* scrape_deputadas_list, lines 1071-1102: the request for the listing page.
\* With status 200 the response goes to process_paginated_results; with
\* every other status, and when session.get raises, deputadas_data is
\* returned as it was initialised (line 1071)
FetchListing(resp) ==
    /\ pc = "listing"
    /\ pages' = <<resp>>
    /\ last_net' = "request"
    /\ IF resp.kind = "response" /\ resp.status = HttpOk
       THEN /\ pc' = "first_page"
            /\ UNCHANGED returned
       ELSE /\ pc' = "returned"
            /\ returned' = <<>>
    /\ UNCHANGED <<current_page, consecutive_errors, all_deputadas, halt, unthrottled>>
    /\ UNCHANGED <<exVars, enrVars, tseVars, tabVars, cnvVars, conVars>>

\* scrape_deputadas_list from its first statement
InitListing ==
    /\ pc = "listing"
    /\ IdleEx /\ IdlePag /\ IdleEnr /\ IdleTse /\ IdleNet
    /\ IdleTab /\ IdleCnv /\ IdleCon

NextListing ==
    \/ \E resp \in PageResponses : FetchListing(resp)
    \/ \E body \in PageBodies : ProcessFirstPage(body)
    \/ \E resp \in PageResponses : FetchPage(resp)
    \/ ExitLoop
    \/ ReturnResults
    \/ \E resp \in FewProfileResponses \cup {NoRequest} : CollectStep(resp)
    \/ CollectReturn

SpecListing == InitListing /\ [][NextListing]_vars

\* process_paginated_results, entered with the first page's response
InitPaginator ==
    /\ pc = "first_page"
    /\ IdleEx /\ IdlePag /\ IdleEnr /\ IdleTse /\ ListingFetched
    /\ IdleTab /\ IdleCnv /\ IdleCon

NextPaginator ==
    \/ \E body \in PageBodies : ProcessFirstPage(body)
    \/ \E resp \in PageResponses : FetchPage(resp)
    \/ ExitLoop
    \/ ReturnResults
    \/ \E resp \in FewProfileResponses \cup {NoRequest} : CollectStep(resp)
    \/ CollectReturn

SpecPaginator == InitPaginator /\ [][NextPaginator]_vars

\* collect_detailed_profiles of either pipeline on every bounded input list
InitEnricher ==
    /\ pc = "collect"
    /\ pipeline \in {"deputadas", "senadoras"}
    /\ deputadas \in SeqsUpTo(BaseRecords(pipeline), MaxInput)
    /\ detailed_deputadas = <<>>
    /\ idx = 1
    /\ profiles = <<>>
    /\ IdleEx /\ IdlePag /\ IdleTse /\ ListingFetched
    /\ IdleTab /\ IdleCnv /\ IdleCon

NextEnricher ==
    \/ \E resp \in ProfileResponses \cup {NoRequest} : CollectStep(resp)
    \/ CollectReturn

SpecEnricher == InitEnricher /\ [][NextEnricher]_vars

\* the row loop of the TSE filter, in either implementation
InitTse ==
    /\ pc = "tse_start"
    /\ impl \in {"csv_to_json", "coletor"}
    /\ stats = ZeroStats
    /\ vereadoras = <<>>
    /\ linha = <<>>
    /\ nrows = 0
    /\ membros = 0
    /\ nfiles = 0
    /\ falhas = 0
    /\ arquivos_processados = 0
    /\ seen = ZeroSeen
    /\ resultado = Pending
    /\ termination = ""
    /\ IdleEx /\ IdlePag /\ IdleEnr /\ IdleNet
    /\ IdleTab /\ IdleCnv /\ IdleCon

\* the archive cannot be downloaded or opened, lists no member file, or
\* lists one or two
ArchiveOutcomes == {"ok", "unreadable", "no_member"}
ArchiveSizes    == {1, 2}

NextTse ==
    \/ \E outcome \in ArchiveOutcomes, n \in ArchiveSizes : OpenArchive(outcome, n)
    \/ OpenFile
    \/ FileRaises
    \/ \E row \in RowSamples : ReadRow(row)
    \/ EndOfFile
    \/ EndOfArchive
    \/ \E saved \in BOOLEAN : MainFinish(saved)

SpecTse == InitTse /\ [][NextTse]_vars

\* parse_and_filter_vereadoras on a CSV whose first line is the header
InitTseWeb ==
    /\ pc = "web_rows"
    /\ impl = "webscraping"
    /\ stats = ZeroStats
    /\ vereadoras = <<>>
    /\ linha = <<>>
    /\ nrows = 0
    /\ membros = 0
    /\ nfiles = 0
    /\ falhas = 0
    /\ arquivos_processados = 0
    /\ seen = ZeroSeen
    /\ resultado = Pending
    /\ termination = ""
    /\ IdleEx /\ IdlePag /\ IdleEnr /\ IdleNet
    /\ IdleTab /\ IdleCnv /\ IdleCon

NextTseWeb ==
    \/ \E wellformed \in BOOLEAN, row_dict \in WebRows : ReadLine(wellformed, row_dict)
    \/ EndOfCsv

SpecTseWeb == InitTseWeb /\ [][NextTseWeb]_vars

\* the record-producing steps on their own: extract_deputada_from_element on
\* elements whose short fields vary one by one, and the row loop of the TSE
\* filter on rows of an elected councilwoman whose optional columns vary
FieldElements ==
    { [Elem(Txt(<<"A","n","a">>), h) EXCEPT !.partido = p, !.uf = u,
                                            !.legislatura = l, !.situacao = s] :
        h \in HrefSamples, p \in FieldOutcomes, u \in FieldOutcomes,
        l \in FieldOutcomes, s \in FieldOutcomes }

With(row, key, value) ==
    [k \in DOMAIN row \cup {key} |-> IF k = key THEN value ELSE row[k]]

Absent == <<"<absent>">>     \* the file has no such column

WithColumn(row, key, value) == IF value = Absent THEN row ELSE With(row, key, value)

FieldRows ==
    { WithColumn(WithColumn(r, "SG_UF_NASCIMENTO", e), "NM_MUNICIPIO_NASCIMENTO", c) :
        r \in { MinimalRow(<<"A","N","A">>),
                Columns(CargoVereador, Eleito, GeneroFeminino, <<"A","N","A">>, <<"A","@","B">>),
                Columns(CargoVereador, Eleito, GeneroFeminino, PyNone, <<>>) },
        e \in { Absent, <<>>, <<"S","P">>, PyNone },
        c \in { Absent, <<"R","I","O">>, PyNone } }

InitRecords ==
    \/ /\ pc = "build"
       /\ element \in FieldElements
       /\ selectors = <<>>
       /\ text_out = Found(<<>>)
       /\ built = NoRecord
       /\ IdlePag /\ IdleEnr /\ IdleTse /\ IdleNet
       /\ IdleTab /\ IdleCnv /\ IdleCon
    \/ InitTse

NextRecords ==
    \/ BuildRecord
    \/ \E n \in ArchiveSizes : OpenArchive("ok", n)
    \/ OpenFile
    \/ \E row \in FieldRows : ReadRow(row)

SpecRecords == InitRecords /\ [][NextRecords]_vars

(***************************************************************************)
(* consolidar_json.py: JSONConsolidator.  An input file is missing, is not *)
(* valid JSON, or holds a JSON object or a JSON array.  An object is given *)
(* by the set of its keys and by the array under the key of its role (the  *)
(* other values are not read); an array by its items.                      *)
(***************************************************************************)
FileMissing    == [kind |-> "missing"]
FileInvalid    == [kind |-> "invalid"]
JsonFile(data) == [kind |-> "json", data |-> data]

JsonDict(keys, l) == [type |-> "dict", keys |-> keys, items |-> l]
JsonList(l)       == [type |-> "list", keys |-> {}, items |-> l]
EmptyDict         == JsonDict({}, <<>>)            \* {}

\* `if not data`: {} and [] are false
Falsy(data) ==
    IF data.type = "dict" THEN data.keys = {} ELSE data.items = <<>>

\* data.get(key, []) on an object
DictGet(data, key) == IF key \in data.keys THEN data.items ELSE <<>>

\* `if partido:` for a text or None
Truthy(v)      == v \notin {<<>>, PyNone}

\* mutant: a missing file is not caught
load_json_file_Propagates(file) ==
    IF file.kind = "json" THEN file.data
    ELSE IF file.kind = "missing"
         THEN [type |-> "raised", keys |-> {}, items |-> <<>>]     \* FileNotFoundError
    ELSE EmptyDict

load_json_file(file) ==
    IF file.kind = "json" THEN file.data         \* return data
    ELSE EmptyDict                               \* every except branch: return {}

Loaded(l)    == [kind |-> "list", items |-> l]
Raises(e)    == [kind |-> "raised", error |-> e]

\* lines 73-77 and 85-89: the list of a role whose file holds an object
ListByKey(data, key) ==
    IF data.type = "raised" THEN Raises("FileNotFoundError")
    ELSE IF Falsy(data) THEN Loaded(<<>>)
    ELSE IF data.type = "dict" THEN Loaded(DictGet(data, key))
    ELSE Raises("AttributeError")                \* a list has no .get

\* lines 97-104: the vereadoras file may hold an array or an object
ListOfVereadoras(data) ==
    IF data.type = "raised" THEN Raises("FileNotFoundError")
    ELSE IF Falsy(data) THEN Loaded(<<>>)
    ELSE IF data.type = "list" THEN Loaded(data.items)
    ELSE Loaded(DictGet(data, "vereadoras"))

\* steps 1 to 3 of consolidate
LoadInputs ==
    /\ pc = "con_load"
    /\ \E d \in {ListByKey(load_json_file(json_files.deputadas), "deputadas")},
          s \in {ListByKey(load_json_file(json_files.senadoras), "senadoras")},
          v \in {ListOfVereadoras(load_json_file(json_files.vereadoras))} :
           IF d.kind = "raised" \/ s.kind = "raised" \/ v.kind = "raised"
           THEN /\ success' = IF d.kind = "raised" THEN d.error
                              ELSE IF s.kind = "raised" THEN s.error ELSE v.error
                /\ pc' = "con_done"
                /\ UNCHANGED <<deputadas_list, senadoras_list, vereadoras_list>>
           ELSE /\ deputadas_list' = d.items
                /\ senadoras_list' = s.items
                /\ vereadoras_list' = v.items
                /\ pc' = "con_merge"
                /\ UNCHANGED success
    /\ UNCHANGED <<json_files, consolidated_data, output_json>>
    /\ UNCHANGED <<exVars, pagVars, enrVars, tseVars, netVars, tabVars, cnvVars>>

DeputadaFederal    == "Deputada Federal"
SenadoraFederal    == "Senadora Federal"
VereadoraMunicipal == "Vereadora Municipal"

NA == <<"N","/","A">>

\* mutant: a record that has a 'cargo' already keeps it
Tagged_KeepsExisting(list, cargo) ==
    [i \in 1..Len(list) |->
        IF "cargo" \in DOMAIN list[i] THEN list[i] ELSE With(list[i], "cargo", cargo)]

\* lines 110-117: `record['cargo'] = ...` on every record of the list
Tagged(list, cargo) == [i \in 1..Len(list) |-> With(list[i], "cargo", cargo)]

\* lines 143-147 and 153-157: the number of records by value of a key
CountBy(list, key) ==
    LET valueOf(i) == Get(list[i], key, NA)
        values     == {valueOf(i) : i \in {j \in 1..Len(list) : Truthy(valueOf(j))}}
    IN  [v \in values |-> Cardinality({i \in 1..Len(list) : valueOf(i) = v})]

Fonte(tipo, total) == [tipo |-> tipo, total |-> total]

\* steps 4 to 6: tag the records, concatenate, build the metadata
TagAndMerge ==
    /\ pc = "con_merge"
    /\ \E d \in {Tagged(deputadas_list, DeputadaFederal)},
          s \in {Tagged(senadoras_list, SenadoraFederal)},
          v \in {Tagged(vereadoras_list, VereadoraMunicipal)} :
           /\ deputadas_list' = d
           /\ senadoras_list' = s
           /\ vereadoras_list' = v
           /\ \E mulheres_politica \in {d \o s \o v} :
                  consolidated_data' =
                      [metadata |->
                          [total_registros |-> Len(mulheres_politica),
                           fontes |-> << Fonte("Deputadas Federais", Len(d)),
                                         Fonte("Senadoras Federais", Len(s)),
                                         Fonte("Vereadoras Municipais", Len(v)) >>,
                           distribuicoes |->
                              [por_cargo   |-> (DeputadaFederal :> Len(d))
                                               @@ (SenadoraFederal :> Len(s))
                                               @@ (VereadoraMunicipal :> Len(v)),
                               por_partido |-> CountBy(mulheres_politica, "partido"),
                               por_uf      |-> CountBy(mulheres_politica, "uf")]],
                       parlamentares |-> mulheres_politica]
    /\ pc' = "con_save"
    /\ UNCHANGED <<json_files, output_json, success>>
    /\ UNCHANGED <<exVars, pagVars, enrVars, tseVars, netVars, tabVars, cnvVars>>

\* step 7: the try block that writes the file (write_ok: mkdir, open and
\* json.dump succeed)
SaveConsolidated(write_ok) ==
    /\ pc = "con_save"
    /\ IF write_ok
       THEN /\ output_json' = JsonFile(consolidated_data)
            /\ success' = "True"
       ELSE /\ success' = "False"
            /\ UNCHANGED output_json
    /\ pc' = "con_done"
    /\ UNCHANGED <<json_files, deputadas_list, senadoras_list, vereadoras_list,
                   consolidated_data>>
    /\ UNCHANGED <<exVars, pagVars, enrVars, tseVars, netVars, tabVars, cnvVars>>

\* the records of the model's files
RecAna == [nome |-> <<"A","n","a">>, partido |-> <<"P","T">>, uf |-> <<"S","P">>]
RecBia == [nome |-> <<"B","i","a">>, partido |-> <<>>, uf |-> <<"S","P">>,
           cargo |-> "Vereador"]
RecEva == [nome |-> <<"E","v","a">>, uf |-> <<"R","J">>]

RecordLists == { <<>>, <<RecAna>>, <<RecBia, RecAna>>, <<RecEva, RecBia>> }

\* the files a role's path can hold; key is the role's key in its object
FilesOf(key) ==
    {FileMissing, FileInvalid}
    \cup { JsonFile(JsonDict({"metadata", key}, l)) : l \in RecordLists }
    \cup { JsonFile(JsonDict({"metadata"}, <<>>)), JsonFile(EmptyDict),
           JsonFile(JsonList(<<RecAna, RecEva>>)) }

InitConsolidator ==
    /\ pc = "con_load"
    /\ json_files \in [deputadas : FilesOf("deputadas"), senadoras : FilesOf("senadoras"),
                       vereadoras : FilesOf("vereadoras")]
    /\ deputadas_list = <<>>
    /\ senadoras_list = <<>>
    /\ vereadoras_list = <<>>
    /\ consolidated_data = <<>>
    /\ output_json = NoFile
    /\ success = ""
    /\ IdleEx /\ IdlePag /\ IdleEnr /\ IdleTse /\ IdleNet /\ IdleTab /\ IdleCnv

NextConsolidator ==
    \/ LoadInputs
    \/ TagAndMerge
    \/ \E write_ok \in BOOLEAN : SaveConsolidated(write_ok)

SpecConsolidator == InitConsolidator /\ [][NextConsolidator]_vars

(***************************************************************************)
(* webscraping_senadoras.py: extract_senadoras_from_filtered_table.  A row *)
(* of the table is                                                         *)
(*   text   : row.get_text().strip();                                      *)
(*   cells  : the number of its <td> cells;                                *)
(*   link   : its first cell holds an <a>;                                 *)
(*   nome, href : the text and the href of that <a>;                       *)
(*   raises : reading one of its cells raises.                             *)
(***************************************************************************)
Feminino  == <<"F","e","m","i","n","i","n","o">>
Masculino == <<"M","a","s","c","u","l","i","n","o">>

MinCells     == 2    \* `len(cells) >= 2`
SenadorCells == 6    \* `len(cells) >= 6`

TableRow(text, cells, link, nome, href, raises) ==
    [text |-> text, cells |-> cells, link |-> link, nome |-> nome, href |-> href,
     raises |-> raises]

\* the flags and counters after one turn of `for row in rows`
ScanRow_(row, fem, masc, list, homens) ==
    IF row.text = Feminino
    THEN [fem |-> TRUE, masc |-> masc, list |-> list, homens |-> homens]
    ELSE IF row.text = Masculino
    THEN [fem |-> FALSE, masc |-> TRUE, list |-> list, homens |-> homens]
    ELSE IF row.cells >= MinCells /\ fem
    THEN IF row.cells >= SenadorCells /\ row.link /\ ~ row.raises
         THEN [fem |-> fem, masc |-> masc,
               list |-> Append(list, SenadoraData(row.nome, row.href)), homens |-> homens]
         ELSE [fem |-> fem, masc |-> masc, list |-> list, homens |-> homens]
    ELSE IF row.cells >= MinCells /\ masc /\ row.link
    THEN [fem |-> fem, masc |-> masc, list |-> list, homens |-> homens + 1]
    ELSE [fem |-> fem, masc |-> masc, list |-> list, homens |-> homens]

\* soup.find('table') (lines 72-80)
FindTable(found) ==
    /\ pc = "tab_start"
    /\ IF found
       THEN /\ pc' = "tab_rows"
            /\ UNCHANGED returned
       ELSE /\ pc' = "returned"
            /\ returned' = senadoras
    /\ UNCHANGED <<current_page, consecutive_errors, all_deputadas, pages, halt>>
    /\ UNCHANGED <<exVars, enrVars, tseVars, netVars, tabVars, cnvVars, conVars>>

\* one turn of `for row in rows` (lines 88-156)
ScanRow ==
    /\ pc = "tab_rows"
    /\ row_i <= Len(rows)
    /\ \E out \in {ScanRow_(rows[row_i], inside_feminino_section,
                            inside_masculino_section, senadoras, total_homens)} :
           /\ inside_feminino_section' = out.fem
           /\ inside_masculino_section' = out.masc
           /\ senadoras' = out.list
           /\ total_homens' = out.homens
    /\ row_i' = row_i + 1
    /\ UNCHANGED <<pc, rows>>
    /\ UNCHANGED <<exVars, pagVars, enrVars, tseVars, netVars, cnvVars, conVars>>

StatsFile(n) == [kind |-> "stats", total_homens |-> n]

\* after the loop (lines 158-169): the male count is written to the
\* temporary file, then the profiles are collected; when the file cannot be
\* written the exception leaves the function and scrape_senadoras_list
\* returns its empty list (lines 34, 58-61)
EndOfTable(write_ok) ==
    /\ pc = "tab_rows"
    /\ row_i > Len(rows)
    /\ IF ~ write_ok
       THEN /\ pc' = "returned"
            /\ returned' = <<>>
            /\ UNCHANGED <<enrVars, temp_stats>>
       ELSE /\ temp_stats' = StatsFile(total_homens)
            /\ IF senadoras # <<>>
               THEN /\ pc' = "collect"
                    /\ pipeline' = "senadoras"
                    /\ deputadas' = senadoras
                    /\ detailed_deputadas' = <<>>
                    /\ idx' = 1
                    /\ profiles' = <<>>
                    /\ UNCHANGED returned
               ELSE /\ pc' = "returned"
                    /\ returned' = senadoras
                    /\ UNCHANGED enrVars
    /\ UNCHANGED <<current_page, consecutive_errors, all_deputadas, pages, halt>>
    /\ UNCHANGED <<csv_file, senadoras_data, json_output, converted>>
    /\ UNCHANGED <<exVars, tseVars, netVars, tabVars, conVars>>

\* the rows of the model's tables
TitleRow   == TableRow(<<"N","o","m","e">>, 0, FALSE, <<>>, <<>>, FALSE)
TableRows ==
    { TableRow(Feminino, 1, FALSE, <<>>, <<>>, FALSE),
      TableRow(Masculino, 1, FALSE, <<>>, <<>>, FALSE),
      TitleRow,
      TableRow(<<"A","n","a"," ","P","T">>, SenadorCells, TRUE, <<"A","n","a">>,
               <<"/senadora/", "1">>, FALSE),
      TableRow(<<"B","i","a"," ","P","T">>, SenadorCells, TRUE, <<" ","B","i","a">>,
               <<>>, FALSE),
      TableRow(<<"E","v","a">>, SenadorCells, TRUE, <<"E","v","a">>, <<>>, TRUE),
      TableRow(<<"x"," ","y">>, MinCells, FALSE, <<>>, <<>>, FALSE) }

\* extract_senadoras_from_filtered_table on every bounded table
InitTable ==
    /\ pc = "tab_start"
    /\ rows \in SeqsUpTo(TableRows, MaxTableRows)
    /\ row_i = 1
    /\ inside_feminino_section = FALSE
    /\ inside_masculino_section = FALSE
    /\ senadoras = <<>>
    /\ total_homens = 0
    /\ IdleEx /\ IdlePag /\ IdleEnr /\ IdleTse /\ ListingFetched /\ IdleCnv /\ IdleCon

NextTable ==
    \/ \E found \in BOOLEAN : FindTable(found)
    \/ ScanRow
    \/ \E write_ok \in BOOLEAN : EndOfTable(write_ok)
    \/ \E resp \in FewProfileResponses \cup {NoRequest} : CollectStep(resp)
    \/ CollectReturn

SpecTable == InitTable /\ [][NextTable]_vars

(***************************************************************************)
(* csv_to_json_senadoras.py: SenadorasCSVToJSONConverter.  The CSV file is *)
(* absent, unreadable, or a sequence of rows; the temporary statistics     *)
(* file is absent, holds a JSON value without `.get`, or holds the object  *)
(* the table scanner wrote.                                                *)
(***************************************************************************)
Campos ==
    {"nome", "nome_civil", "partido", "uf", "periodo_mandato", "telefones", "email",
     "data_nascimento", "naturalidade", "profissao", "formacao", "numero_mandatos",
     "comissoes", "link_perfil", "fonte_dados", "url_fonte", "data_extracao"}

TotalCampos == 17

WebScrapingHTML == <<"Web Scraping HTML">>

\* lines 46-64
senadora_info(row) ==
    [campo \in Campos |->
        Get(row, campo, IF campo = "fonte_dados" THEN WebScrapingHTML ELSE <<>>)]

CsvUnreadable == [kind |-> "unreadable"]
CsvRows(l)    == [kind |-> "csv", rows |-> l]

\* process_csv_to_json (lines 27-77)
process_csv_to_json(file) ==
    IF file.kind = "csv"
    THEN [i \in 1..Len(file.rows) |-> senadora_info(file.rows[i])]
    ELSE <<>>

\* the first statement of convert (line 210)
ProcessCsv ==
    /\ pc = "cnv_read"
    /\ senadoras_data' = process_csv_to_json(csv_file)
    /\ pc' = "cnv_save"
    /\ UNCHANGED <<csv_file, temp_stats, json_output, converted>>
    /\ UNCHANGED <<exVars, pagVars, enrVars, tseVars, netVars, tabVars, conVars>>

\* lines 119-122
campos_nao_vazios(data) ==
    [campo \in Campos |->
        Cardinality({i \in 1..Len(data) :
                        Truthy(data[i][campo]) /\ Strip(Str(data[i][campo])) # <<>>})]

\* a / b to the nearest integer, ties to the even one
RoundDiv(a, b) ==
    LET q == a \div b
        r == a % b
    IN  IF 2 * r > b \/ (2 * r = b /\ q % 2 = 1) THEN q + 1 ELSE q

\* lines 136-140, in hundredths of a percent
pct_mulheres(qtd_mulheres, total_geral) ==
    IF total_geral > 0 THEN RoundDiv(qtd_mulheres * 10000, total_geral) ELSE 0

\* lines 142-177
output_data(data, homens) ==
    [kind |-> "json",
     total_registros |-> Len(data),
     total_campos |-> TotalCampos,
     campos_preenchidos |-> campos_nao_vazios(data),
     total_mulheres |-> Len(data),
     total_homens |-> homens,
     total_geral |-> Len(data) + homens,
     porcentagem_mulheres |-> pct_mulheres(Len(data), Len(data) + homens),
     senadoras |-> data]

\* save_to_json (lines 79-200) and the rest of convert (lines 212-226).  The
\* test of an empty list stands inside the `except:` block of the read of
\* the temporary file (lines 125-134): it runs only when that read raised.
SaveToJson(write_ok) ==
    /\ pc = "cnv_save"
    /\ pc' = "cnv_done"
    /\ \E readable \in {temp_stats.kind = "stats"} :
       \E homens \in {IF readable THEN temp_stats.total_homens ELSE 0} :
           IF ~ readable /\ senadoras_data = <<>>
           THEN /\ converted' = "False"
                /\ UNCHANGED json_output
           ELSE IF ~ write_ok
           THEN /\ converted' = "False"
                /\ UNCHANGED json_output
           ELSE /\ converted' = "True"
                /\ json_output' = output_data(senadoras_data, homens)
    /\ UNCHANGED <<csv_file, senadoras_data, temp_stats>>
    /\ UNCHANGED <<exVars, pagVars, enrVars, tseVars, netVars, tabVars, conVars>>

\* the rows of the model's CSV files
CsvRowSamples ==
    { [campo \in Campos |->
          IF campo = "nome" THEN <<"A","n","a">>
          ELSE IF campo = "email" THEN <<" ">>
          ELSE IF campo = "telefones" THEN <<>>
          ELSE <<"x">>],
      [campo \in Campos |-> IF campo = "nome" THEN <<"B","i","a">> ELSE PyNone],
      [campo \in {"nome", "partido", "uf"} |-> <<"E">>] }

TempStatsSamples ==
    { NoFile, [kind |-> "list", total_homens |-> 0], StatsFile(0), StatsFile(2) }

InitConverter ==
    /\ pc = "cnv_read"
    /\ csv_file \in {NoFile, CsvUnreadable} \cup {CsvRows(l) : l \in SeqsUpTo(CsvRowSamples, 2)}
    /\ temp_stats \in TempStatsSamples
    /\ senadoras_data = <<>>
    /\ json_output = NoFile
    /\ converted = ""
    /\ IdleEx /\ IdlePag /\ IdleEnr /\ IdleTse /\ IdleNet /\ IdleTab /\ IdleCon

NextConverter ==
    \/ ProcessCsv
    \/ \E write_ok \in BOOLEAN : SaveToJson(write_ok)

SpecConverter == InitConverter /\ [][NextConverter]_vars

(***************************************************************************)
(* Vocabulary of the properties.                                           *)
(***************************************************************************)
IsOk(resp)       == resp.kind = "response" /\ resp.status = 200
IsNotFound(resp) == resp.kind = "response" /\ resp.status = 404
\* a failed page fetch: a status that is neither 200 nor 404, or an exception
Failed(resp)     == resp.kind = "exception"
                    \/ (resp.kind = "response" /\ resp.status \notin {200, 404})

UrlOf(k) == IF k = 1 THEN BaseUrl ELSE PageUrl(k)

\* page k was fetched and its text holds a "no results" phrase
HasMarker(k) == IsOk(pages[k]) /\ pages[k].body.marker

\* the records page k holds
RecordsOf(k) ==
    IF IsOk(pages[k]) THEN parse_deputadas_results(pages[k].body, UrlOf(k)) ELSE <<>>

\* the loop parsed page k and found records in it
Yields(k) == IsOk(pages[k]) /\ (k = 1 \/ ~ pages[k].body.marker) /\ RecordsOf(k) # <<>>

RECURSIVE ParsedUpTo(_)
ParsedUpTo(n) == IF n = 0 THEN <<>> ELSE ParsedUpTo(n - 1) \o RecordsOf(n)

\* out holds one record per record of inp, in the same order, each with the
\* fields of its input record
Corresponds(out, inp) ==
    /\ Len(out) = Len(inp)
    /\ \A i \in 1..Len(inp) :
           \A k \in DOMAIN inp[i] : k \in DOMAIN out[i] /\ out[i][k] = inp[i][k]

\* C1: once three consecutive page fetches have failed no further page is
\* fetched, and the caller gets one record per record accumulated from the
\* earlier pages.
C1_ThreeFailuresStop ==
    \A k \in 1..Len(pages) :
        (k + 2 <= Len(pages) /\ Failed(pages[k]) /\ Failed(pages[k + 1]) /\ Failed(pages[k + 2]))
        => /\ Len(pages) = k + 2
           /\ all_deputadas = ParsedUpTo(k - 1)
           /\ pc # "paging" => halt = "errors"
           /\ pc = "returned" => Corresponds(returned, ParsedUpTo(k - 1))

C1_Witness ==
    /\ pc = "returned"
    /\ halt = "errors"
    /\ Len(pages) = 5
    /\ pages[3] = FetchRaises /\ pages[4] = Status(HttpError) /\ pages[5] = FetchRaises
    /\ Len(returned) = 3

\* C2: when page N >= 2 is the first fetched page whose text holds a "no
\* results" phrase, page N+1 is never fetched, page N adds no record, and the
\* returned list is, record for record and in page order, what pages 1..N-1
\* hold.
C2_MarkerStops ==
    \A N \in 2..Len(pages) :
        (HasMarker(N) /\ \A j \in 1..(N - 1) : ~ HasMarker(j))
        => /\ Len(pages) = N
           /\ all_deputadas = ParsedUpTo(N - 1)
           /\ pc = "returned" => Corresponds(returned, ParsedUpTo(N - 1))

C2_Witness ==
    /\ pc = "returned"
    /\ Len(pages) = 4
    /\ HasMarker(4) /\ RecordsOf(4) # <<>>
    /\ \A j \in 1..3 : ~ HasMarker(j) /\ Yields(j)
    /\ Len(returned) = 4

\* C3: the consecutive-failure counter stays within 0..3, is zero after every
\* page that yielded a record, an abort follows three pages in a row that
\* yielded none, and no page is fetched in a state where the counter is 3.
C3_CounterState ==
    /\ consecutive_errors \in 0..3
    /\ (pages # <<>> /\ Yields(Len(pages))) => consecutive_errors = 0
    /\ halt = "errors" =>
           /\ Len(pages) > 3
           /\ \A k \in (Len(pages) - 2)..Len(pages) : ~ Yields(k)

\* C3, as a property of behaviours: C3_CounterState holds in every state and
\* a state whose counter is 3 is never followed by a page fetch.
C3_CounterResets ==
    /\ []C3_CounterState
    /\ [][consecutive_errors = 3 => (pages' = pages /\ current_page' = current_page)]_vars

C3_Witness ==
    /\ pc = "paging"
    /\ Len(pages) = 5
    /\ Failed(pages[2]) /\ Failed(pages[3]) /\ Yields(4) /\ Failed(pages[5])
    /\ consecutive_errors = 1

\* C4: a 404 answer ends pagination at once, whatever the counter holds: no
\* later page is fetched and the counter is left as it was.
C4_NotFoundState ==
    \A k \in 2..Len(pages) :
        IsNotFound(pages[k]) => (k = Len(pages) /\ pc # "paging" /\ halt = "404")

\* C4, as a property of behaviours: C4_NotFoundState holds in every state and
\* the step that receives a 404 leaves the counter alone and leaves the loop.
C4_NotFoundEnds ==
    /\ []C4_NotFoundState
    /\ [][(pages' # pages /\ IsNotFound(pages'[Len(pages')]))
            => (consecutive_errors' = consecutive_errors /\ pc' = "after_loop")]_vars

C4_Witness ==
    /\ pc = "returned"
    /\ halt = "404"
    /\ consecutive_errors = 2
    /\ IsNotFound(pages[Len(pages)])

\* a profile request that gave no detail: no link, an exception of the request
\* or of the page's parsing, or a status other than 200
NoDetail(resp) ==
    \/ resp.kind \in {"skipped", "exception"}
    \/ resp.kind = "response" /\ resp.status # 200
    \/ resp.kind = "response" /\ resp.status = 200 /\ resp.body.soup_raises

\* C5: collect_detailed_profiles gives one output record per input record,
\* in the input order, whatever happens to each record's profile request.
C5_OneToOne ==
    /\ pc = "collect" =>
           /\ Len(detailed_deputadas) = idx - 1
           /\ Corresponds(detailed_deputadas, SubSeq(deputadas, 1, idx - 1))
    /\ pc = "returned" => Corresponds(returned, deputadas)

C5_Witness ==
    /\ pc = "returned"
    /\ Len(returned) = 4
    /\ \E i, j, k, l \in 1..4 :
           /\ profiles[i] = NoRequest
           /\ profiles[j] = FetchRaises
           /\ profiles[k] = Status(HttpError)
           /\ IsOk(profiles[l]) /\ ~ profiles[l].body.soup_raises

\* C6: where a record has no profile link, or its profile request raises or
\* answers with a status other than 200, the output record at that position
\* is the input record, field for field.
C6_PassThrough ==
    \A i \in 1..Len(profiles) :
        NoDetail(profiles[i]) =>
            /\ i <= Len(detailed_deputadas)
            /\ detailed_deputadas[i] = deputadas[i]
            /\ pc = "returned" => returned[i] = deputadas[i]

C6_Witness ==
    /\ pc = "returned"
    /\ \E i, j, k \in 1..Len(profiles) :
           /\ profiles[i] = NoRequest
           /\ profiles[j] = FetchRaises
           /\ profiles[k] = Status(HttpError)
    /\ \E l \in 1..Len(profiles) : returned[l] # deputadas[l]

\* the display name is not empty and has at least 3 characters once trimmed
NameOk(r) == r.nome # PyNone /\ Len(Strip(r.nome)) >= 3

\* C7: every record of every result list (deputadas, vereadoras) has a
\* display name of at least 3 characters after trimming.
C7_NameInvariant ==
    /\ \A i \in 1..Len(all_deputadas) : NameOk(all_deputadas[i])
    /\ \A i \in 1..Len(returned) : NameOk(returned[i])
    /\ \A i \in 1..Len(vereadoras) : NameOk(vereadoras[i])

\* C8: extract_deputada_from_element gives None or a record whose name has
\* 3 to 100 characters, one of them alphabetic; no exception leaves it.
C8_BuilderName ==
    pc = "built" =>
        /\ built.kind \in {"None", "record"}
        /\ built.kind = "record" =>
               /\ Len(built.rec.nome) >= 3
               /\ Len(built.rec.nome) <= 100
               /\ \E i \in 1..Len(built.rec.nome) : IsAlpha(built.rec.nome[i])

C8_Witness ==
    /\ pc = "built"
    /\ built.kind = "record"
    /\ Len(built.rec.nome) = 100
    /\ Len(element.nome) = 3
    /\ element.nome[1] = SelRaise

\* a selector whose sub-element has a trimmed text longer than one character
Acceptable(o) == o.kind = "text" /\ Len(Strip(o.text)) > 1

\* C9: extract_text_by_selectors returns "" when no selector gives a trimmed
\* text longer than one character (a selector that raises is skipped), else
\* the text of the first selector in list order that gives one; no exception
\* leaves it.
C9_FirstMatchOrEmpty ==
    pc = "extracted" =>
        /\ text_out.kind = "returned"
        /\ IF \E i \in 1..Len(selectors) : Acceptable(selectors[i])
           THEN LET first == CHOOSE i \in 1..Len(selectors) :
                                 /\ Acceptable(selectors[i])
                                 /\ \A j \in 1..(i - 1) : ~ Acceptable(selectors[j])
                IN  text_out.text = Strip(selectors[first].text)
           ELSE text_out.text = <<>>

C9_Witness ==
    /\ pc = "extracted"
    /\ Len(selectors) = 3
    /\ selectors[1] = SelRaise
    /\ Acceptable(selectors[2]) /\ Acceptable(selectors[3])
    /\ Strip(selectors[2].text) # Strip(selectors[3].text)
    /\ text_out = Found(Strip(selectors[2].text))

\* C10: after every row read, skipped or not, the elected total is the sum of
\* the male, female and undisclosed tallies.
C10_TallySum ==
    stats.total_eleitos_geral =
        stats.total_homens_eleitos + stats.total_mulheres_eleitas
        + stats.total_nao_divulgado_eleitos

C10_Witness ==
    /\ nrows = 2
    /\ stats.total_eleitos_geral = 2
    /\ stats.total_mulheres_eleitas = 1
    /\ stats.total_nao_divulgado_eleitos = 1
    /\ "DS_EMAIL" \in DOMAIN linha
    /\ linha["DS_EMAIL"] = PyNone
    /\ vereadoras = <<>>


C12_OnlyElectedRows ==
    [][Len(vereadoras') > Len(vereadoras) => RowEleito(linha')]_vars


\* C13: a row whose processing raises adds no record, leaves the four
\* tallies as they were, and the row loop goes on with the next row.
C13_RaisingRowSkipped ==
    [][(pc = "tse_rows" /\ nrows' = nrows + 1 /\ ProcessLinha(impl, linha', stats).raised)
          => (stats' = stats /\ vereadoras' = vereadoras /\ pc' = "tse_rows")]_vars


\* the records and the tallies a returned value carries
ResultRecords(res) ==
    IF res.kind \in {"tuple", "dict"} THEN res.vereadoras
    ELSE IF res.kind = "list" THEN res.items
    ELSE <<>>
ResultStats(res) == IF res.kind \in {"tuple", "dict"} THEN res.stats ELSE ZeroStats

\* C14: when a member file raised while it was opened or read, the
\* processing still reaches every member file and returns a result that
\* holds the records and tallies of all the rows read, those of the files
\* before and after the failing one.
C14_FileFailureIsLocal ==
    (pc = "tse_returned" /\ falhas > 0) =>
        /\ nfiles = membros
        /\ ResultRecords(resultado) = vereadoras
        /\ ResultStats(resultado) = stats
        /\ Len(vereadoras) = seen.registros
        /\ stats.total_eleitos_geral = seen.eleitos


\* C15: a row made of CD_CARGO '13', CD_GENERO '4', DS_SIT_TOT_TURNO
\* 'ELEITO' and NM_CANDIDATO = X adds exactly one record, whose display name
\* (nome) is X.  (The role tag of the claim is the key 'cargo' that
\* consolidar_json.py sets on every record when the lists are merged.)
C15_DisplayNameIsCandidate ==
    [][(nrows' = nrows + 1 /\ linha' \in MinimalRows) =>
          /\ Len(vereadoras') = Len(vereadoras) + 1
          /\ vereadoras'[Len(vereadoras')].nome = linha'["NM_CANDIDATO"]]_vars


\* C16: when the archive cannot be downloaded or opened, or lists no member
\* file, the result is empty and main ends by returning or by its own
\* exit(1), never by an exception nobody handles.
C16_EmptyResultEndsCleanly ==
    (pc = "tse_exit" /\ membros = 0) =>
        /\ ResultRecords(resultado) = <<>>
        /\ termination \in {"return", "exit(1)"}


\* the response to the request for page k is one the loop counts as an
\* error: a failed fetch, or a page fetched with 200 that has no "no results"
\* phrase, has a role keyword and gives no record
CountsAsError(resp, k) ==
    \/ Failed(resp)
    \/ /\ IsOk(resp)
       /\ ~ resp.body.marker
       /\ resp.body.keyword
       /\ parse_deputadas_results(resp.body, PageUrl(k)) = <<>>

C18_FirstPageMarkerStops ==
    (pages # <<>> /\ HasMarker(1)) => (Len(pages) = 1 /\ current_page = 1)

\* two records of the same person
SamePerson(a, b) == a.nome = b.nome /\ a.link_perfil = b.link_perfil

\* C19: whatever the server answers, the accumulator never holds a record
\* twice (a page that repeats an earlier one adds nothing and lets the
\* pagination stop).
C19_NoRecordTwice ==
    \A i, j \in 1..Len(all_deputadas) :
        i # j => ~ SamePerson(all_deputadas[i], all_deputadas[j])


\* C20: no request of a scraping run is issued right after another request:
\* a sleep lies between any two of them (page to page, last page to first
\* profile, profile to profile, also after a request that raised).
C20_NoBackToBack == ~ unthrottled


\* the fields of the base record a are all in b, with the values they have in a
KeepsFields(a, b) == \A k \in DOMAIN a : k \in DOMAIN b /\ b[k] = a[k]

\* C21: every output record of collect_detailed_profiles holds each field of
\* its input record with the input's value (the details only add fields), and
\* no step changes a record of the input list.
C21_EnrichmentOnlyAdds ==
    /\ [](/\ \A i \in 1..Len(detailed_deputadas) :
                i <= Len(deputadas) /\ KeepsFields(deputadas[i], detailed_deputadas[i])
          /\ pc = "returned" =>
                \A i \in 1..Len(returned) :
                    i <= Len(deputadas) /\ KeepsFields(deputadas[i], returned[i]))
    /\ [][deputadas' = deputadas]_vars

C21_Witness ==
    /\ pc = "returned"
    /\ pipeline = "senadoras"
    /\ Len(returned) = 3
    /\ IsOk(profiles[1]) /\ ~ profiles[1].body.soup_raises
    /\ DOMAIN returned[1] # DOMAIN deputadas[1]
    /\ returned[1].nome_civil # <<>>
    /\ returned[1].nome_civil # returned[1].nome
    /\ profiles[2] = FetchRaises
    /\ returned[2] = deputadas[2]


\* name with every occurrence of the phrase p (letter case aside) cut out
RECURSIVE WithoutPhrase(_, _)
WithoutPhrase(name, p) ==
    IF Contains(Lower(name), p)
    THEN LET i == CHOOSE i \in 0..(Len(name) - Len(p)) :
                      /\ Lower(SubSeq(name, i + 1, i + Len(p))) = p
                      /\ \A j \in 0..(i - 1) : Lower(SubSeq(name, j + 1, j + Len(p))) # p
         IN  WithoutPhrase(SubSeq(name, 1, i) \o SubSeq(name, i + Len(p) + 1, Len(name)), p)
    ELSE name

RECURSIVE WithoutPhrases(_, _)
WithoutPhrases(name, k) ==
    IF k = 0 THEN name
    ELSE WithoutPhrase(WithoutPhrases(name, k - 1), unwanted_phrases[k])

\* what is left of a name once the UI phrases are removed and it is trimmed
Remainder(name) == Strip(WithoutPhrases(name, Len(unwanted_phrases)))

\* a text that is a name: 3 to 100 characters, one of them alphabetic
LooksLikeName(n) ==
    Len(n) >= NameMinLen /\ Len(n) <= NameMaxLen /\ \E i \in 1..Len(n) : IsAlpha(n[i])

\* C22: name cleaning removes the UI phrases from the candidate name and
\* keeps the rest: when what is left is 3 to 100 characters long and has a
\* letter, the element gives a record with that name; a name is not lost for
\* holding a phrase.
C22_PhraseRemovedNameKept ==
    (pc = "built" /\ ~ element.bs4_raises) =>
        LET nome0 == extract_text_by_selectors(element.nome).text
        IN  (Len(nome0) >= NameMinLen /\ LooksLikeName(Remainder(nome0)))
            => (built.kind = "record" /\ built.rec.nome = Remainder(nome0))


\* the short descriptive fields of a record of the listing
ShortFields == {"partido", "uf", "legislatura", "situacao"}

\* the text the selectors of field k give on the element ("" when none does)
Extracted(el, k) == extract_text_by_selectors(el[k]).text

\* C23: in every record extract_deputada_from_element produces, each short
\* descriptive field taken from the page has no leading or trailing blank,
\* is at most 50 characters long, and is left unchanged by clean_text,
\* whatever the length of the extracted text.
C23_ShortFieldsClean ==
    (pc = "built" /\ built.kind = "record") =>
        \A k \in ShortFields :
            Extracted(element, k) # <<>> =>
                /\ Strip(built.rec[k]) = built.rec[k]
                /\ Len(built.rec[k]) <= CleanTextMax
                /\ clean_text(built.rec[k]) = built.rec[k]


\* the row gives no value for the column: the file lacks it, the row is too
\* short to reach it, or the value is the empty text
NoValue(row, col) == col \notin DOMAIN row \/ row[col] \in {PyNone, <<>>}

\* the empty markers: '' and None
EmptyMarker(v) == v \in {<<>>, PyNone}

\* the fields of a vereadora record that are copied from one column
CopiedFrom ==
    [nome |-> "NM_URNA_CANDIDATO", nome_civil |-> "NM_CANDIDATO", partido |-> "SG_PARTIDO",
     uf |-> "SG_UF", municipio |-> "NM_UE", data_nascimento |-> "DT_NASCIMENTO",
     grau_instrucao |-> "DS_GRAU_INSTRUCAO", ocupacao |-> "DS_OCUPACAO",
     estado_civil |-> "DS_ESTADO_CIVIL", cor_raca |-> "DS_COR_RACA", email |-> "DS_EMAIL"]

\* the copied fields of the record rec made from row are empty where the row
\* gives no value
CopiedFieldsEmpty(row, rec) ==
    \A k \in DOMAIN CopiedFrom : NoValue(row, CopiedFrom[k]) => EmptyMarker(rec[k])

\* the step adds a record to vereadoras
AddsRecord == Len(vereadoras') = Len(vereadoras) + 1

\* C24 as stated: in every produced record a field for which the source gave
\* no value holds '' or None, never a placeholder text.
C24_NoPlaceholder ==
    /\ []((pc = "built" /\ built.kind = "record") =>
             /\ \A k \in ShortFields :
                    Extracted(element, k) = <<>> => EmptyMarker(built.rec[k])
             /\ element.href = <<>> => EmptyMarker(built.rec.link_perfil))
    /\ [][AddsRecord =>
             /\ CopiedFieldsEmpty(linha', vereadoras'[Len(vereadoras')])
             /\ NoValue(linha', "SG_UF_NASCIMENTO")
                    => EmptyMarker(vereadoras'[Len(vereadoras')].naturalidade)]_vars

\* C24, amended: in a record of extract_deputada_from_element partido, uf
\* and link_perfil are '' when the page gave no value, while legislatura and
\* situacao are then the fixed texts 'Multiplas legislaturas' and 'Conforme
\* periodo'; in a record of the TSE filter a field copied from a column is ''
\* or None when the row gives no value for the column, while naturalidade is
\* 'Nao Informado' when the row gives no birth state.
C24_EmptyExceptDefaults ==
    /\ []((pc = "built" /\ built.kind = "record") =>
             /\ Extracted(element, "partido") = <<>> => built.rec.partido = <<>>
             /\ Extracted(element, "uf") = <<>> => built.rec.uf = <<>>
             /\ element.href = <<>> => built.rec.link_perfil = <<>>
             /\ Extracted(element, "legislatura") = <<>>
                    => built.rec.legislatura = DefaultLegislatura
             /\ Extracted(element, "situacao") = <<>>
                    => built.rec.situacao = DefaultSituacao)
    /\ [][AddsRecord =>
             /\ CopiedFieldsEmpty(linha', vereadoras'[Len(vereadoras')])
             /\ NoValue(linha', "SG_UF_NASCIMENTO")
                    => vereadoras'[Len(vereadoras')].naturalidade = NaoInformado]_vars

C24_Witness ==
    /\ pc = "tse_rows"
    /\ nrows = 2
    /\ Len(vereadoras) = 2
    /\ "NM_URNA_CANDIDATO" \notin DOMAIN linha
    /\ "SG_UF_NASCIMENTO" \in DOMAIN linha /\ linha["SG_UF_NASCIMENTO"] = PyNone
    /\ vereadoras[2].nome = PyNone
    /\ vereadoras[2].email = <<>>
    /\ vereadoras[2].naturalidade = NaoInformado
    /\ vereadoras[1].naturalidade # NaoInformado


\* C25: when every member file was read and the elected total is 0, no
\* division by the total is reached: the processing function hands back its
\* result (percentage 0) and main ends without a ZeroDivisionError, in the
\* output metadata as in the final report.
C25_ZeroTotalNoDivision ==
    (stats.total_eleitos_geral = 0 /\ resultado.kind \in {"tuple", "dict", "raised"}) =>
        /\ resultado # RaisesOut("ZeroDivisionError")
        /\ pc = "tse_exit" => termination # "ZeroDivisionError"


Roles   == {"deputadas", "senadoras", "vereadoras"}
RoleTag == [deputadas |-> DeputadaFederal, senadoras |-> SenadoraFederal,
            vereadoras |-> VereadoraMunicipal]

\* the records the file of role r holds (none when it is missing or not JSON)
HeldBy(r) ==
    LET f == json_files[r]
    IN  IF f.kind # "json" THEN <<>>
        ELSE IF f.data.type = "list" THEN f.data.items
        ELSE DictGet(f.data, r)

\* consolidate got as far as building consolidated_data
Consolidated == pc = "con_save" \/ (pc = "con_done" /\ success \in {"True", "False"})

\* C26: after consolidate, 'parlamentares' is deputadas ++ senadoras ++
\* vereadoras in input order, each record tagged with the role of its list,
\* and total_registros = len(parlamentares) = the sum of the por_cargo
\* counts = the sum of the fontes totals.
C26_ConcatenationTagged ==
    Consolidated =>
        LET p == consolidated_data.parlamentares
            m == consolidated_data.metadata
            d == HeldBy("deputadas")
            s == HeldBy("senadoras")
            v == HeldBy("vereadoras")
        IN  /\ Len(p) = Len(d) + Len(s) + Len(v)
            /\ \A i \in 1..Len(d) : p[i] = With(d[i], "cargo", DeputadaFederal)
            /\ \A i \in 1..Len(s) : p[Len(d) + i] = With(s[i], "cargo", SenadoraFederal)
            /\ \A i \in 1..Len(v) :
                   p[Len(d) + Len(s) + i] = With(v[i], "cargo", VereadoraMunicipal)
            /\ m.total_registros = Len(p)
            /\ m.total_registros =
                   m.distribuicoes.por_cargo[DeputadaFederal]
                   + m.distribuicoes.por_cargo[SenadoraFederal]
                   + m.distribuicoes.por_cargo[VereadoraMunicipal]
            /\ m.total_registros =
                   m.fontes[1].total + m.fontes[2].total + m.fontes[3].total

C26_Witness ==
    /\ pc = "con_done"
    /\ success = "True"
    /\ HeldBy("deputadas") = <<RecBia, RecAna>>
    /\ HeldBy("senadoras") = <<RecEva, RecBia>>
    /\ json_files.vereadoras = JsonFile(JsonList(<<RecAna, RecEva>>))
    /\ Len(output_json.data.parlamentares) = 6
    /\ output_json.data.parlamentares[1].cargo = DeputadaFederal
    /\ output_json.data.parlamentares[4].cargo = SenadoraFederal


\* the file of role r is missing or is not valid JSON
Unreadable(r) == json_files[r] \in {FileMissing, FileInvalid}

\* the file of role r, when it is JSON, has the shape its producer writes: an
\* object (for the vereadoras an array will do)
ExpectedShape(r) ==
    json_files[r].kind = "json" => (json_files[r].data.type = "dict" \/ r = "vereadoras")

\* C27: when one of the three input files is missing or is not valid JSON
\* (the others being files of the expected shape), consolidate does not
\* raise, that role contributes no record, and the records of the other
\* roles are consolidated and written to the output file.
C27_UnreadableInputIsEmpty ==
    ((\E r \in Roles : Unreadable(r)) /\ (\A r \in Roles : ExpectedShape(r))) =>
        /\ success \in {"", "True", "False"}
        /\ pc = "con_done" /\ success = "True" =>
               /\ output_json = JsonFile(consolidated_data)
               /\ \A r \in Roles :
                      /\ consolidated_data.metadata.distribuicoes.por_cargo[RoleTag[r]]
                             = Len(HeldBy(r))
                      /\ Unreadable(r) =>
                             \A i \in 1..Len(consolidated_data.parlamentares) :
                                 consolidated_data.parlamentares[i].cargo # RoleTag[r]
               /\ Len(consolidated_data.parlamentares) =
                      Len(HeldBy("deputadas")) + Len(HeldBy("senadoras"))
                      + Len(HeldBy("vereadoras"))
        /\ pc = "con_done" /\ success = "False" => output_json = NoFile

C27_Witness ==
    /\ pc = "con_done"
    /\ success = "True"
    /\ json_files.deputadas = FileMissing
    /\ HeldBy("senadoras") = <<RecEva, RecBia>>
    /\ HeldBy("vereadoras") = <<RecAna>>
    /\ Len(output_json.data.parlamentares) = 3


\* a 'Masculino' header row is among the rows the loop has been through
MasculinoSeen == \E j \in 1..(row_i - 1) : j <= Len(rows) /\ rows[j].text = Masculino

\* C28: whatever the order of the section-header rows, the scanner is never
\* inside the 'Feminino' and the 'Masculino' section at once, and once a
\* 'Masculino' header row has been seen no later row is added to senadoras.
C28_SectionsExclusive ==
    /\ [](~ (inside_feminino_section /\ inside_masculino_section))
    /\ [][MasculinoSeen => senadoras' = senadoras]_vars


\* the request for the first listing page did not give status 200
FirstRequestFailed == pages # <<>> /\ ~ IsOk(pages[1])

\* C29: when the request for the first listing page fails or gives a status
\* other than 200, scrape_deputadas_list returns the empty list and fetches
\* no other page and no profile; no error is counted for the first page.
C29_FirstPageFailureReturnsEmpty ==
    FirstRequestFailed =>
        /\ pc = "returned"
        /\ returned = <<>>
        /\ Len(pages) = 1
        /\ profiles = <<>>
        /\ consecutive_errors = 0

C29_Witness ==
    /\ FirstRequestFailed
    /\ pages[1] = FetchRaises
    /\ pc = "returned"


\* C30: save_to_json returns False and writes no output file whenever the
\* record list is empty, whether or not the temporary statistics file of the
\* male count can be read.
C30_EmptyListNotSaved ==
    (pc = "cnv_done" /\ senadoras_data = <<>>) =>
        (converted = "False" /\ json_output = NoFile)

====
